---- MODULE Spec2Model ----
(***************************************************************************)
(* A model of the connection core of tarantool-module:                     *)
(*   - net_box::SendQueue in its two revisions (V1 = src/src/net_box,       *)
(*     latch protected; V2 = src/tarantool/src/net_box, lock free),         *)
(*   - net_box::Conn (the sync allocator of the blocking connection),       *)
(*   - network::client::Client with its sender and receiver fibers.         *)
(* Fibers are cooperative: one action is the code a fiber runs between two  *)
(* suspension points.                                                       *)
(***************************************************************************)
EXTENDS Integers, Sequences, FiniteSets, TLC

\* ------------------------------------------------------------------ bounds
\* number of send calls made on one SendQueue
MaxSends == 3
\* largest payload (header and body bytes) a payload producer writes
MaxPayload == 2
\* number of fibers calling SendQueue::send
NCallers == 2
\* SendQueue::new(.., buffer_limit, ..): bytes in the back buffer above which send signals
BufferLimit == 7
\* number of requests made on one Conn
MaxConnCalls == 6
\* number of Client handles (clones) of one connection, each used by one fiber
NClients == 2
\* number of Client::send calls made on one connection
MaxCalls == 2
\* largest frame length the peer announces in a length prefix
MaxFrameLen == 1
\* the largest representable Instant
MaxInstant == 6
\* the largest Duration (larger than any Instant)
MaxDuration == 8
\* number of fibers calling Client::connect_with_config
NConnects == 2
\* the largest value of the third 16-bit limb of a payload length (lengths below 2^33)
MaxHighLimb == 1
\* the responses the peer sends to one RecvQueue (syncs 1..MaxResponses)
MaxResponses == 3

\* ------------------------------------------------------------ SendQueue state
VARIABLES
    version,        \* "V1" or "V2": which revision of send_queue.rs was constructed
    is_active,      \* SendQueue.is_active
    sync,           \* SendQueue.sync
    front_buffer,   \* SendQueue.front_buffer : Cursor<Vec<u8>> as [data, pos]
    back_buffer,    \* SendQueue.back_buffer
    buffer_lock,    \* SendQueue.buffer_lock (V1): [owner, queue]
    s_pc,           \* per calling fiber: where it is inside send
    s_sync,         \* per calling fiber: the local `sync` of send
    s_offset,       \* per calling fiber: the local `offset` of send
    f_pc,           \* the flushing fiber: where it is inside flush_to_stream
    f_result,       \* what the last flush_to_stream call returned
    prev_data_size, \* flush_to_stream local (V2)
    f_late,         \* start_ts.elapsed() > flush_interval has been observed (V2)
    cl_pc,          \* the fiber calling close
    stream,         \* every byte the stream accepted, in order
    issued,         \* history: the values next_sync returned, in call order
    waited,         \* history: the syncs whose sender had to queue for buffer_lock
    closed_at,      \* history: where the flusher was when close cleared is_active
    appended        \* history: the bytes of the frames send appended with Ok, in order

\* ----------------------------------------------------------------- Conn state
VARIABLES
    conn_sync,      \* Conn.sync
    conn_session,   \* Conn.session is Some
    conn_wire,      \* the sync of every request written to the session's stream
    conn_issued,    \* history: the values Conn::next_sync returned
    conn_panicked   \* a request unwrapped a missing session

\* --------------------------------------------------------------- Client state
VARIABLES
    state,              \* ClientInner.state : [tag, text]
    awaiting_response,  \* ClientInner.awaiting_response : sync -> the handle whose send waits
    close_token,        \* ClientInner.close_token is Some
    worker_handles,     \* ClientInner.worker_handles : the workers Drop still has to join
    waker_changed,      \* sender_waker holds a change the sender has not seen
    p_sync,             \* Protocol: the last sync allocated
    p_phase,            \* Protocol: "greeting", "auth" or "ready"
    p_creds,            \* Protocol: Config.creds is Some
    p_outgoing,         \* Protocol: frames ready to be drained
    p_pending,          \* Protocol: frames of requests made before the phase is "ready"
    p_incoming,         \* Protocol: sync -> the response stored by process_incoming
    h_st,               \* per handle: "absent", "idle", "awaiting", "joining", "dropped"
    c_sync,             \* per handle: the local `sync` of its send
    c_result,           \* per handle: what its last send returned
    chan,               \* per handle: the oneshot channel of its send
    receiver_pc,        \* receiver fiber: "reading" or "exited"
    r_hint,             \* receiver fiber: the local `hint`
    r_last,             \* receiver fiber: the sync process_incoming returned last (0: none)
    sender_pc,          \* sender fiber: "waiting", "writing" or "exited"
    sender_data,        \* sender fiber: the local `data` being written
    sock_closed,        \* the close token was invoked
    wire,               \* the frames the socket accepted, in order
    answered,           \* the syncs the peer has answered
    unwaited,           \* the syncs logged as "received unwaited message"
    panicked,           \* the panics raised (a panic stops the program)
    c_calls,            \* the number of Client::send calls made
    causes,             \* the texts the state has held as ClosedWithError
    c_prev,             \* per handle: the result of the send before the current one
    r_reads             \* the reads the receiver completed: [size, decoded]

\* a Ref or RefMut of the ClientInner is held by a suspended task
VARIABLE borrowed

clientvars == <<state, awaiting_response, close_token, worker_handles, waker_changed,
                p_sync, p_phase, p_creds, p_outgoing, p_pending, p_incoming,
                h_st, c_sync, c_result, chan,
                receiver_pc, r_hint, r_last, sender_pc, sender_data,
                sock_closed, wire, answered, unwaited, panicked, c_calls, causes, c_prev, r_reads>>

\* -------------------------------------------------------------- Timeout state
VARIABLES
    t_now,              \* Instant::now()
    t_pc,               \* the Timeout: "new", "polling", "done", "panicked"
    t_created,          \* the instant timeout() was called at
    t_duration,         \* the `timeout` argument
    t_deadline,         \* Timeout.deadline
    t_inner,            \* Timeout.future: "never", "pending" or "ready"
    t_value,            \* the output of the inner future
    t_result,           \* what Timeout::poll returned last
    t_sched             \* the deadline recorded in the task context (-1: none)

timeoutvars == <<t_now, t_pc, t_created, t_duration, t_deadline, t_inner, t_value,
                 t_result, t_sched>>

\* -------------------------------------------------------------- connect state
VARIABLES
    cn_pc,              \* per connecting fiber: "idle", "connecting", "done"
    cn_creds,           \* config.creds is Some
    cn_inner,           \* the ClientInner made by ClientInner::new exists
    cn_watch,           \* the watch channel of the sender waker exists
    cn_token,           \* ClientInner.close_token is Some
    cn_fibers,          \* the worker fibers started, their handles in worker_handles
    cn_outcome,         \* what TcpStream::connect resolved to ("none": not yet)
    cn_result           \* what connect_with_config returned

connectvars == <<cn_pc, cn_creds, cn_inner, cn_watch, cn_token, cn_fibers, cn_outcome,
                 cn_result>>

\* ------------------------------------------------- write_to_buffer, any length
VARIABLES
    w_pc,           \* "idle": write_to_buffer not called yet; "returned"
    w_len,          \* the number of bytes payload_producer writes, a u64 in 16-bit limbs
    w_ok,           \* payload_producer returns Ok
    w_prefix,       \* the bytes of the buffer at msg_start_offset (MSG_SIZE)
    w_pos,          \* buffer.position(), as the offset it was last set to
    w_result        \* what write_to_buffer returned

writevars == <<w_pc, w_len, w_ok, w_prefix, w_pos, w_result>>

\* ------------------------------------------------------------ RecvQueue state
VARIABLES
    rq_buffer,      \* RecvQueue.buffer: the message it holds, and whether all of it
    rq_header,      \* RecvQueue.header : Option<Header>
    cond_map,       \* RecvQueue.cond_map: sync -> the fiber waiting on the Cond
    rq_lock,        \* RecvQueue.lock: [owner, queue]
    rc_pc,          \* per calling fiber: where it is inside recv
    rc_sync,        \* per calling fiber: the `sync` argument of recv
    rc_timeout,     \* per calling fiber: options.timeout is Some
    rc_result,      \* per calling fiber: what its last recv returned
    pl_pc,          \* the pulling fiber: where it is inside pull
    pl_header,      \* pull's local `header`
    rq_requested,   \* history: the syncs recv was called with
    rq_arrived,     \* history: the syncs of the responses read from the stream
    rq_dropped,     \* history: the syncs of the responses pull found no waiter for
    rq_timedout,    \* history: the syncs whose recv returned TimedOut, and whether the
                    \* response had been read from the stream by then
    rq_reads,       \* history: what each signalled waiter found when it read
    rq_panicked     \* a waiter unwrapped an empty header slot

recvvars == <<rq_buffer, rq_header, cond_map, rq_lock, rc_pc, rc_sync, rc_timeout,
              rc_result, pl_pc, pl_header, rq_requested, rq_arrived, rq_dropped,
              rq_timedout, rq_reads, rq_panicked>>

netboxvars == <<writevars, recvvars>>

sqvars == <<version, is_active, sync, front_buffer, back_buffer, buffer_lock,
            s_pc, s_sync, s_offset, f_pc, f_result, prev_data_size, f_late,
            cl_pc, stream, issued, waited, closed_at, appended>>
connvars == <<conn_sync, conn_session, conn_wire, conn_issued, conn_panicked>>
vars == <<sqvars, connvars, clientvars, timeoutvars, connectvars, netboxvars, borrowed>>

\* ---------------------------------------------------------------- helpers
Max(a, b) == IF a > b THEN a ELSE b

IsPrefix(s, t) == Len(s) <= Len(t) /\ SubSeq(t, 1, Len(s)) = s

StrictlyIncreasing(s) == \A i \in 1..Len(s) : \A j \in 1..Len(s) : i < j => s[i] < s[j]

Callers == 1..NCallers

\* fibers that can own or wait for a latch
CallerFiber(c) == <<"caller", c>>
FlusherFiber == <<"flusher", 0>>
CloserFiber == <<"closer", 0>>
NoFiber == <<"none", 0>>

\* ------------------------------------------------------- Cursor<Vec<u8>>
EmptyCursor == [data |-> <<>>, pos |-> 0]

\* Write for Cursor<Vec<u8>>: overwrite from the position, grow the vector as needed
CursorWrite(buffer, bytes) ==
    LET p == buffer.pos
        n == Len(bytes)
        newlen == Max(Len(buffer.data), p + n)
    IN  [data |-> [i \in 1..newlen |->
                      IF i > p /\ i <= p + n THEN bytes[i - p] ELSE buffer.data[i]],
         pos |-> p + n]

\* Cursor::set_position: moves the position, leaves the vector alone
SetPosition(buffer, p) == [buffer EXCEPT !.pos = p]

\* rmp::encode::write_u32: marker 0xce and the value in 4 big-endian bytes
Marker == 206
PrefixSize == 5
EncodeU32(n) ==
    << Marker, (n \div 16777216) % 256, (n \div 65536) % 256, (n \div 256) % 256, n % 256 >>

\* rmp::decode::read_u32 on the 5 bytes starting at index i of s. Values from
\* 2^31 on are all read as 2^31 - 1: they exceed the integers of the checker,
\* and every byte sequence of the model is far shorter than that.
DecodeU32At(s, i) ==
    IF s[i + 1] >= 128 THEN 2147483647
    ELSE s[i + 1] * 16777216 + s[i + 2] * 65536 + s[i + 3] * 256 + s[i + 4]

\* Request::encode: the header, then the body. The header is modelled by two
\* bytes, the map marker and the sync; the body by bytes 0xaa. ProducerBytes is
\* the first n bytes a payload producer writes for request `s`.
HeaderTag == 130
HeaderSize == 2
ProducerBytes(s, n) ==
    [i \in 1..n |-> IF i = 1 THEN HeaderTag ELSE IF i = HeaderSize THEN s ELSE 170]

\* A payload producer: writes a whole payload of n bytes and returns Ok, or
\* writes the first n bytes of one and returns Err.
Producers ==
    {[n |-> n, ok |-> TRUE] : n \in HeaderSize..MaxPayload}
        \cup {[n |-> n, ok |-> FALSE] : n \in 0..MaxPayload}

\* write_to_buffer up to the call of payload_producer: the MSG_SIZE placeholder
write_to_buffer_begin(buffer) == CursorWrite(buffer, EncodeU32(0))

\* write_to_buffer from the call of payload_producer on; `placed` is the buffer
\* with the placeholder written at msg_start_offset
write_to_buffer_finish(placed, msg_start_offset, s, p) ==
    LET payload_start_offset == placed.pos
        produced == CursorWrite(placed, ProducerBytes(s, p.n))
        payload_end_offset == produced.pos
        sized == CursorWrite(SetPosition(produced, msg_start_offset),
                             EncodeU32(payload_end_offset - payload_start_offset))
    IN  IF p.ok
        THEN [ok |-> TRUE, buffer |-> SetPosition(sized, payload_end_offset)]
        ELSE [ok |-> FALSE, buffer |-> produced]

write_to_buffer(buffer, s, p) ==
    write_to_buffer_finish(write_to_buffer_begin(buffer), buffer.pos, s, p)

\* SendQueue::next_sync: the value returned and stored (u64; 2^64 calls are out of reach)
\* A variant of the allocator that forgets the increment.
next_sync_stale(cur) == cur

next_sync_value(cur) == cur + 1

\* ------------------------------------------------------------ Latch, Cond
\* box_latch: taken at once when free and nobody queues, else the fiber queues;
\* unlock hands the latch to the first fiber of the queue.
LatchFree(l) == l.owner = NoFiber /\ l.queue = <<>>
LatchTake(l, f) == [l EXCEPT !.owner = f]
LatchEnqueue(l, f) == [l EXCEPT !.queue = Append(l.queue, f)]
LatchUnlock(l) ==
    IF l.queue = <<>> THEN [owner |-> NoFiber, queue |-> <<>>]
    ELSE [owner |-> Head(l.queue), queue |-> Tail(l.queue)]

\* A signal that wakes nobody.
SignalledPc_lost(pc, signal) == pc

\* Cond::signal on swap_cond: only the flusher ever waits on it
SignalledPc(pc, signal) == IF signal /\ pc = "cond_wait" THEN "loop" ELSE pc

\* ------------------------------------------------------------------ Init
InitSQ(v) ==
    /\ version = v
    /\ is_active = TRUE
    /\ sync = 0
    /\ front_buffer = EmptyCursor
    /\ back_buffer = EmptyCursor
    /\ buffer_lock = [owner |-> NoFiber, queue |-> <<>>]
    /\ s_pc = [c \in Callers |-> "idle"]
    /\ s_sync = [c \in Callers |-> 0]
    /\ s_offset = [c \in Callers |-> 0]
    /\ f_pc = "idle"
    /\ f_result = "none"
    /\ prev_data_size = 0
    /\ f_late = FALSE
    /\ cl_pc = "idle"
    /\ stream = <<>>
    /\ issued = <<>>
    /\ waited = {}
    /\ closed_at = "open"
    /\ appended = <<>>

InitConn ==
    /\ conn_sync = 0
    /\ conn_session = FALSE
    /\ conn_wire = <<>>
    /\ conn_issued = <<>>
    /\ conn_panicked = FALSE


\* ------------------------------------------------ SendQueue::send (V2)
\* src/tarantool/src/net_box/send_queue.rs: no suspension point inside send
SendV2 ==
    /\ version = "V2"
    /\ sync < MaxSends
    /\ \E p \in Producers :
        LET s == next_sync_value(sync)
            over_limit == back_buffer.pos >= BufferLimit
            offset == back_buffer.pos
            r == write_to_buffer(back_buffer, s, p)
        IN  /\ sync' = s
            /\ issued' = Append(issued, s)
            /\ back_buffer' = IF r.ok THEN r.buffer ELSE SetPosition(r.buffer, offset)
            /\ appended' = IF r.ok
                           THEN appended \o SubSeq(r.buffer.data, offset + 1, r.buffer.pos)
                           ELSE appended
            /\ f_pc' = SignalledPc(f_pc, over_limit \/ (r.ok /\ offset = 0))
    /\ UNCHANGED <<version, is_active, front_buffer, buffer_lock, s_pc, s_sync, s_offset,
                   f_result,
                   prev_data_size, f_late, cl_pc, stream, waited, closed_at>>

\* ------------------------------------------------ SendQueue::send (V1)
\* send from write_to_buffer's call of payload_producer to its return, the
\* fiber holding buffer_lock (`held`); ends with the guard's unlock
SendFinishV1(c, s, offset, placed, p, held) ==
    LET r == write_to_buffer_finish(placed, offset, s, p)
    IN  /\ back_buffer' = IF r.ok THEN r.buffer ELSE SetPosition(r.buffer, offset)
        /\ appended' = IF r.ok
                       THEN appended \o SubSeq(r.buffer.data, offset + 1, r.buffer.pos)
                       ELSE appended
        /\ buffer_lock' = LatchUnlock(held)
        /\ f_pc' = SignalledPc(f_pc, r.ok /\ offset = 0)
        /\ s_pc' = [s_pc EXCEPT ![c] = "idle"]
        /\ s_offset' = [s_offset EXCEPT ![c] = 0]
        /\ s_sync' = [s_sync EXCEPT ![c] = 0]

\* send once buffer_lock is held: the payload producer either runs to its end
\* or suspends the fiber (the case the latch is there for)
SendLockedV1(c, s, held) ==
    LET offset == back_buffer.pos
        placed == write_to_buffer_begin(back_buffer)
    IN  \/ /\ back_buffer' = placed
           /\ buffer_lock' = held
           /\ s_pc' = [s_pc EXCEPT ![c] = "producing"]
           /\ s_offset' = [s_offset EXCEPT ![c] = offset]
           /\ s_sync' = [s_sync EXCEPT ![c] = s]
           /\ UNCHANGED <<appended, f_pc>>
        \/ \E p \in Producers : SendFinishV1(c, s, offset, placed, p, held)

\* send: next_sync, then buffer_lock.lock()
SendV1Start(c) ==
    /\ version = "V1"
    /\ s_pc[c] = "idle"
    \* calling fibers are interchangeable: the idle one with the smallest id calls
    /\ \A d \in Callers : s_pc[d] = "idle" => c <= d
    /\ sync < MaxSends
    /\ LET s == next_sync_value(sync)
       IN  /\ sync' = s
           /\ issued' = Append(issued, s)
           /\ IF LatchFree(buffer_lock)
              THEN /\ SendLockedV1(c, s, LatchTake(buffer_lock, CallerFiber(c)))
                   /\ UNCHANGED waited
              ELSE /\ waited' = waited \cup {s}
                   /\ buffer_lock' = LatchEnqueue(buffer_lock, CallerFiber(c))
                   /\ s_pc' = [s_pc EXCEPT ![c] = "lock_wait"]
                   /\ s_sync' = [s_sync EXCEPT ![c] = s]
                   /\ UNCHANGED <<back_buffer, appended, f_pc, s_offset>>
    /\ UNCHANGED <<version, is_active, front_buffer, f_result, prev_data_size, f_late,
                   cl_pc, stream, closed_at>>

\* the latch was handed to the waiting sender
SendV1Acquired(c) ==
    /\ version = "V1"
    /\ s_pc[c] = "lock_wait"
    /\ buffer_lock.owner = CallerFiber(c)
    /\ SendLockedV1(c, s_sync[c], buffer_lock)
    /\ UNCHANGED <<version, is_active, sync, front_buffer, f_result,
                   prev_data_size, f_late, cl_pc, stream, issued, waited, closed_at>>

\* the suspended payload producer runs to its end
SendV1Resume(c) ==
    /\ version = "V1"
    /\ s_pc[c] = "producing"
    /\ \E p \in Producers :
          SendFinishV1(c, s_sync[c], s_offset[c], back_buffer, p, buffer_lock)
    /\ UNCHANGED <<version, is_active, sync, front_buffer, f_result,
                   prev_data_size, f_late, cl_pc, stream, issued, waited, closed_at>>

\* ------------------------------------------------ SendQueue::flush_to_stream
FlushCall ==
    /\ f_pc = "idle"
    /\ f_result # "io_err"
    /\ f_pc' = "loop"
    /\ prev_data_size' = 0
    /\ f_late' = FALSE
    /\ UNCHANGED <<version, is_active, sync, front_buffer, back_buffer, buffer_lock,
                   s_pc, s_sync, s_offset, f_result, cl_pc, stream, issued, appended, waited, closed_at>>

\* V2: one pass of the loop, up to wait, reschedule or the swap
FlushLoopV2 ==
    /\ version = "V2"
    /\ f_pc = "loop"
    /\ IF ~is_active
       THEN /\ f_pc' = "idle"
            /\ f_result' = "closed"
            /\ prev_data_size' = 0
            /\ f_late' = FALSE
            /\ UNCHANGED <<front_buffer, back_buffer>>
       ELSE IF back_buffer.pos = 0
       THEN /\ f_pc' = "cond_wait"
            /\ UNCHANGED <<front_buffer, back_buffer, prev_data_size, f_late, f_result>>
       ELSE \E late \in {f_late, TRUE} :
            /\ IF back_buffer.pos > prev_data_size /\ ~late
               THEN /\ prev_data_size' = back_buffer.pos
                    /\ f_pc' = "loop"
                    /\ f_late' = late
                    /\ UNCHANGED <<front_buffer, back_buffer, f_result>>
               ELSE /\ back_buffer' = front_buffer
                    /\ front_buffer' = back_buffer
                    /\ f_pc' = "write"
                    /\ prev_data_size' = 0
                    /\ f_late' = FALSE
                    /\ UNCHANGED f_result
    /\ UNCHANGED <<version, is_active, sync, buffer_lock, s_pc, s_sync, s_offset,
                   cl_pc, stream, issued, appended, waited, closed_at>>

\* V2: stream.write_all(buffer.get_ref())?, then the clear
FlushWriteV2 ==
    /\ version = "V2"
    /\ f_pc = "write"
    /\ \/ /\ stream' = stream \o front_buffer.data
          /\ front_buffer' = EmptyCursor
          /\ f_result' = "ok"
       \/ \E m \in 0..(Len(front_buffer.data) - 1) :
          /\ stream' = stream \o SubSeq(front_buffer.data, 1, m)
          /\ f_result' = "io_err"
          /\ UNCHANGED front_buffer
    /\ f_pc' = "idle"
    /\ UNCHANGED <<version, is_active, sync, back_buffer, buffer_lock, s_pc, s_sync,
                   s_offset, prev_data_size, f_late, cl_pc, issued, appended, waited, closed_at>>

\* V1: the block of the loop that runs under buffer_lock
FlushLockedV1 ==
    IF ~is_active
    THEN /\ f_pc' = "idle"
         /\ f_result' = "closed"
         /\ UNCHANGED <<front_buffer, back_buffer>>
    ELSE IF back_buffer.pos > 0
    THEN /\ back_buffer' = front_buffer
         /\ front_buffer' = back_buffer
         /\ f_pc' = "write"
         /\ UNCHANGED f_result
    ELSE /\ f_pc' = "cond_wait"
         /\ UNCHANGED <<front_buffer, back_buffer, f_result>>

FlushLoopV1 ==
    /\ version = "V1"
    /\ f_pc = "loop"
    /\ IF LatchFree(buffer_lock)
       THEN /\ FlushLockedV1
            /\ UNCHANGED buffer_lock
       ELSE /\ buffer_lock' = LatchEnqueue(buffer_lock, FlusherFiber)
            /\ f_pc' = "lock_wait"
            /\ UNCHANGED <<front_buffer, back_buffer, f_result>>
    /\ UNCHANGED <<version, is_active, sync, s_pc, s_sync, s_offset, prev_data_size,
                   f_late, cl_pc, stream, issued, appended, waited, closed_at>>

FlushAcquiredV1 ==
    /\ version = "V1"
    /\ f_pc = "lock_wait"
    /\ buffer_lock.owner = FlusherFiber
    /\ FlushLockedV1
    /\ buffer_lock' = LatchUnlock(buffer_lock)
    /\ UNCHANGED <<version, is_active, sync, s_pc, s_sync, s_offset, prev_data_size,
                   f_late, cl_pc, stream, issued, appended, waited, closed_at>>

\* V1: stream.write(buffer.get_ref())?, then the clear
FlushWriteV1 ==
    /\ version = "V1"
    /\ f_pc = "write"
    /\ \/ \E m \in 1..Len(front_buffer.data) :
          /\ stream' = stream \o SubSeq(front_buffer.data, 1, m)
          /\ front_buffer' = EmptyCursor
          /\ f_result' = "ok"
       \/ /\ f_result' = "io_err"
          /\ UNCHANGED <<stream, front_buffer>>
    /\ f_pc' = "idle"
    /\ UNCHANGED <<version, is_active, sync, back_buffer, buffer_lock, s_pc, s_sync,
                   s_offset, prev_data_size, f_late, cl_pc, issued, appended, waited, closed_at>>

\* ------------------------------------------------ SendQueue::close
CloseV2 ==
    /\ version = "V2"
    /\ cl_pc = "idle"
    /\ is_active' = FALSE
    /\ closed_at' = f_pc
    /\ f_pc' = SignalledPc(f_pc, TRUE)
    /\ cl_pc' = "done"
    /\ UNCHANGED <<version, sync, front_buffer, back_buffer, buffer_lock, s_pc, s_sync,
                   s_offset, f_result, prev_data_size, f_late, stream, issued, appended, waited>>

CloseV1Start ==
    /\ version = "V1"
    /\ cl_pc = "idle"
    /\ IF LatchFree(buffer_lock)
       THEN /\ is_active' = FALSE
            /\ closed_at' = f_pc
            /\ f_pc' = SignalledPc(f_pc, TRUE)
            /\ cl_pc' = "done"
            /\ UNCHANGED buffer_lock
       ELSE /\ buffer_lock' = LatchEnqueue(buffer_lock, CloserFiber)
            /\ cl_pc' = "lock_wait"
            /\ UNCHANGED <<is_active, f_pc, closed_at>>
    /\ UNCHANGED <<version, sync, front_buffer, back_buffer, s_pc, s_sync, s_offset,
                   f_result, prev_data_size, f_late, stream, issued, appended, waited>>

CloseV1Acquired ==
    /\ version = "V1"
    /\ cl_pc = "lock_wait"
    /\ buffer_lock.owner = CloserFiber
    /\ is_active' = FALSE
    /\ closed_at' = f_pc
    /\ buffer_lock' = LatchUnlock(buffer_lock)
    /\ f_pc' = SignalledPc(f_pc, TRUE)
    /\ cl_pc' = "done"
    /\ UNCHANGED <<version, sync, front_buffer, back_buffer, s_pc, s_sync, s_offset,
                   f_result, prev_data_size, f_late, stream, issued, appended, waited>>

\* ------------------------------------------------ Conn
\* Conn::next_sync: the value returned
conn_next_sync_value(cur) == cur

\* Conn::ping: next_sync, encode_ping, send_request
ConnPing ==
    /\ ~conn_panicked
    /\ conn_sync < MaxConnCalls
    /\ LET s == conn_next_sync_value(conn_sync)
       IN  /\ conn_sync' = conn_sync + 1
           /\ conn_issued' = Append(conn_issued, s)
           /\ \E connected \in (IF conn_session THEN {TRUE} ELSE {TRUE, FALSE}) :
              \* self.connect() with its Result dropped, then session.unwrap()
              IF connected
              THEN /\ conn_session' = TRUE
                   /\ \E written \in BOOLEAN :
                         conn_wire' = IF written THEN Append(conn_wire, s) ELSE conn_wire
                   /\ UNCHANGED conn_panicked
              ELSE /\ conn_panicked' = TRUE
                   /\ UNCHANGED <<conn_session, conn_wire>>

\* Conn::call: next_sync, encode_call; nothing is sent
ConnCall ==
    /\ ~conn_panicked
    /\ conn_sync < MaxConnCalls
    /\ conn_sync' = conn_sync + 1
    /\ conn_issued' = Append(conn_issued, conn_next_sync_value(conn_sync))
    /\ UNCHANGED <<conn_session, conn_wire, conn_panicked>>

\* ------------------------------------------------ Client: values
Handles == 1..NClients

Alive == [tag |-> "Alive", text |-> ""]
ClosedManually == [tag |-> "ClosedManually", text |-> ""]
ClosedWithError(text) == [tag |-> "ClosedWithError", text |-> text]
is_alive(st) == st.tag = "Alive"
is_closed(st) == ~is_alive(st)

\* The texts of the errors a worker hands to handle_result!.
ReadError == "tcp stream error: read"
WriteError == "tcp stream error: write"
DecodeError == "protocol error: decode"
ZeroLengthError == "unexpected zero message length"

\* HashMap as a function with a finite domain.
EmptyMap == [k \in {} |-> 0]
MapInsert(m, k, v) == [x \in DOMAIN m \cup {k} |-> IF x = k THEN v ELSE m[x]]
MapRemove(m, k) == [x \in DOMAIN m \ {k} |-> m[x]]

\* oneshot::channel between the table's Sender and the caller's Receiver.
NoChan == [st |-> "none", text |-> ""]
OpenChan == [st |-> "open", text |-> ""]
OkChan == [st |-> "ok", text |-> ""]
ErrChan(text) == [st |-> "err", text |-> text]

\* What Client::send returned.
NoResult == [kind |-> "none", val |-> 0, text |-> ""]
OkResult(body) == [kind |-> "Ok", val |-> body, text |-> ""]
ClosedWithErr(text) == [kind |-> "ClosedWithErr", val |-> 0, text |-> text]
ProtocolErr(text) == [kind |-> "Protocol", val |-> 0, text |-> text]
Cancelled == [kind |-> "cancelled", val |-> 0, text |-> ""]
Expired == [kind |-> "Expired", val |-> 0, text |-> ""]

\* SizeHint
FirstU32 == [kind |-> "FirstU32", size |-> PrefixSize]
GreetingSize == 128
Hint(n) == [kind |-> "Hint", size |-> n]

\* Frames of the asynchronous client, as the socket sees them.
RequestFrame(s) == [sync |-> s, kind |-> "request"]
AuthFrame(s) == [sync |-> s, kind |-> "auth"]
TornFrame(f) == [sync |-> f.sync, kind |-> "torn"]

\* Rc::strong_count: the live handles and the Rc each running worker owns.
StrongCount ==
    Cardinality({h \in Handles : h_st[h] \in {"idle", "awaiting", "joining"}})
        + (IF receiver_pc # "exited" THEN 1 ELSE 0)
        + (IF sender_pc # "exited" THEN 1 ELSE 0)

\* ------------------------------------------------ Protocol
\* Protocol::send_request allocates the next sync.
protocol_next_sync(cur) == cur + 1

\* Protocol::send_request places the frame: ready to drain once the phase is
\* "ready", held back before.
protocol_enqueue_now(phase, outgoing, pending, frame) ==
    [outgoing |-> Append(outgoing, frame), pending |-> pending]

protocol_enqueue(phase, outgoing, pending, frame) ==
    IF phase = "ready"
    THEN [outgoing |-> Append(outgoing, frame), pending |-> pending]
    ELSE [outgoing |-> outgoing, pending |-> Append(pending, frame)]

\* The requests the peer has received and not answered yet.
Unanswered == {wire[i].sync : i \in {j \in 1..Len(wire) : wire[j].kind = "request"}} \ answered

\* The peer has received the authentication request and owes its response.
AuthDue == p_phase = "auth" /\ \E i \in 1..Len(wire) : wire[i].kind = "auth"

\* ------------------------------------------------ Client: Init
InitClient ==
    /\ state = Alive
    /\ awaiting_response = EmptyMap
    /\ close_token = TRUE
    /\ worker_handles = {"receiver", "sender"}
    /\ waker_changed = FALSE
    /\ p_sync = 0
    /\ p_phase = "greeting"
    /\ p_creds \in BOOLEAN
    /\ p_outgoing = <<>>
    /\ p_pending = <<>>
    /\ p_incoming = EmptyMap
    /\ h_st = [h \in Handles |-> IF h = 1 THEN "idle" ELSE "absent"]
    /\ c_sync = [h \in Handles |-> 0]
    /\ c_result = [h \in Handles |-> NoResult]
    /\ chan = [h \in Handles |-> NoChan]
    /\ receiver_pc = "reading"
    /\ r_hint = Hint(GreetingSize)
    /\ r_last = 0
    /\ sender_pc = "waiting"
    /\ sender_data = <<>>
    /\ sock_closed = FALSE
    /\ wire = <<>>
    /\ answered = {}
    /\ unwaited = {}
    /\ panicked = {}
    /\ c_calls = 0
    /\ causes = {}
    /\ c_prev = [h \in Handles |-> NoResult]
    /\ r_reads = <<>>
    /\ borrowed = FALSE

\* ------------------------------------------------ wake_sender
\* A variant that never signals the waker.
wake_sender_never(outgoing, changed) == changed

wake_sender(outgoing, changed) == changed \/ Len(outgoing) > 0

\* ------------------------------------------------ Client::check_state
check_state(st) ==
    CASE st.tag = "Alive" -> "Ok"
      [] st.tag = "ClosedManually" -> "unreachable"
      [] st.tag = "ClosedWithError" -> "Err"

\* ------------------------------------------------ Client::send
\* From the call to the first suspension at rx.await.
ClientSend(h) ==
    /\ panicked = {}
    /\ h_st[h] = "idle"
    /\ c_calls < MaxCalls
    /\ c_calls' = c_calls + 1
    /\ c_prev' = [c_prev EXCEPT ![h] = c_result[h]]
    /\ CASE check_state(state) = "unreachable" ->
              /\ panicked' = {"All client handles are dropped at this point"}
              /\ UNCHANGED <<awaiting_response, waker_changed, p_sync, p_outgoing,
                             p_pending, h_st, c_sync, c_result, chan>>
         [] check_state(state) = "Err" ->
              /\ c_result' = [c_result EXCEPT ![h] = ClosedWithErr(state.text)]
              /\ UNCHANGED <<awaiting_response, waker_changed, p_sync, p_outgoing,
                             p_pending, h_st, c_sync, chan, panicked>>
         [] check_state(state) = "Ok" ->
              \E encoded \in BOOLEAN :
                LET s == protocol_next_sync(p_sync)
                    q == protocol_enqueue(p_phase, p_outgoing, p_pending, RequestFrame(s))
                IN  /\ p_sync' = s
                    /\ IF encoded
                       THEN /\ p_outgoing' = q.outgoing
                            /\ p_pending' = q.pending
                            /\ c_sync' = [c_sync EXCEPT ![h] = s]
                            /\ chan' = [chan EXCEPT ![h] = OpenChan]
                            /\ awaiting_response' = MapInsert(awaiting_response, s, h)
                            /\ waker_changed' = wake_sender(q.outgoing, waker_changed)
                            /\ h_st' = [h_st EXCEPT ![h] = "awaiting"]
                            /\ c_result' = [c_result EXCEPT ![h] = NoResult]
                       ELSE /\ c_result' = [c_result EXCEPT ![h] = ProtocolErr("encode")]
                            /\ UNCHANGED <<awaiting_response, waker_changed, p_outgoing,
                                           p_pending, h_st, c_sync, chan>>
                    /\ UNCHANGED panicked
    /\ UNCHANGED <<state, close_token, worker_handles, p_phase, p_creds, p_incoming,
                   receiver_pc, r_hint, r_last, sender_pc, sender_data, sock_closed, wire, answered,
                   unwaited,
                   causes, r_reads>>

\* Protocol::take_response of a stored response.
\* A variant that hands every stored response out as a success.
take_response_ok(resp) == OkResult(resp.body)

take_response(resp) ==
    IF resp.status = "ok" THEN OkResult(resp.body) ELSE ProtocolErr("service responded with error")

\* The caller runs again after its channel was signalled.
ClientSendResume(h) ==
    /\ panicked = {}
    /\ h_st[h] = "awaiting"
    /\ chan[h].st \in {"ok", "err"}
    /\ chan' = [chan EXCEPT ![h] = NoChan]
    /\ IF chan[h].st = "err"
       THEN /\ c_result' = [c_result EXCEPT ![h] = ClosedWithErr(chan[h].text)]
            /\ h_st' = [h_st EXCEPT ![h] = "idle"]
            /\ UNCHANGED <<p_incoming, panicked>>
       ELSE IF c_sync[h] \in DOMAIN p_incoming
            THEN /\ c_result' = [c_result EXCEPT ![h] = take_response(p_incoming[c_sync[h]])]
                 /\ p_incoming' = MapRemove(p_incoming, c_sync[h])
                 /\ h_st' = [h_st EXCEPT ![h] = "idle"]
                 /\ UNCHANGED panicked
            ELSE /\ panicked' = {"Is present at this point"}
                 /\ UNCHANGED <<p_incoming, c_result, h_st>>
    /\ UNCHANGED <<state, awaiting_response, close_token, worker_handles, waker_changed,
                   p_sync, p_phase, p_creds, p_outgoing, p_pending, c_sync,
                   receiver_pc, r_hint, r_last, sender_pc, sender_data, sock_closed, wire, answered,
                   unwaited, c_calls,
                   causes, c_prev, r_reads>>

\* The future of send is dropped at rx.await (a Timeout expiring, for one):
\* the on_drop hook runs, then the Receiver half is dropped.
on_drop_keeps(table, s) == table
on_drop_clears(table, s) == EmptyMap

on_drop(table, s) == MapRemove(table, s)

\* The hook touches nothing of the Protocol: the frames it has buffered stay.
\* A variant that takes the frame of the dropped request out of the buffer.
on_drop_unbuffers(frames, s) == SelectSeq(frames, LAMBDA f : f.sync # s)

on_drop_buffered(frames, s) == frames

ClientSendCancel(h) ==
    /\ panicked = {}
    /\ h_st[h] = "awaiting"
    /\ awaiting_response' = on_drop(awaiting_response, c_sync[h])
    /\ chan' = [chan EXCEPT ![h] = NoChan]
    /\ h_st' = [h_st EXCEPT ![h] = "idle"]
    /\ c_result' = [c_result EXCEPT ![h] = Cancelled]
    /\ p_outgoing' = on_drop_buffered(p_outgoing, c_sync[h])
    /\ p_pending' = on_drop_buffered(p_pending, c_sync[h])
    /\ UNCHANGED <<state, close_token, worker_handles, waker_changed, p_sync, p_phase,
                   p_creds, p_incoming, c_sync,
                   receiver_pc, r_hint, r_last, sender_pc, sender_data, sock_closed, wire, answered,
                   unwaited, panicked, c_calls,
                   causes, c_prev, r_reads>>

\* Timeout::poll around send returns Err(Expired): the inner future was
\* polled first and is pending (its channel holds no value), and the deadline
\* has passed.  The send future is dropped, its on_drop hook runs.
ClientSendExpired(h) ==
    /\ panicked = {}
    /\ h_st[h] = "awaiting"
    /\ chan[h].st = "open"
    /\ awaiting_response' = on_drop(awaiting_response, c_sync[h])
    /\ chan' = [chan EXCEPT ![h] = NoChan]
    /\ h_st' = [h_st EXCEPT ![h] = "idle"]
    /\ c_result' = [c_result EXCEPT ![h] = Expired]
    /\ p_outgoing' = on_drop_buffered(p_outgoing, c_sync[h])
    /\ p_pending' = on_drop_buffered(p_pending, c_sync[h])
    /\ UNCHANGED <<state, close_token, worker_handles, waker_changed, p_sync, p_phase,
                   p_creds, p_incoming, c_sync,
                   receiver_pc, r_hint, r_last, sender_pc, sender_data, sock_closed,
                   wire, answered, unwaited, panicked, c_calls, causes, c_prev, r_reads>>

\* ------------------------------------------------ Client::clone
ClientClone(h, n) ==
    /\ panicked = {}
    /\ h_st[h] = "idle"
    /\ h_st[n] = "absent"
    /\ \A m \in Handles : m < n => h_st[m] # "absent"
    /\ h_st' = [h_st EXCEPT ![n] = "idle"]
    /\ UNCHANGED <<state, awaiting_response, close_token, worker_handles, waker_changed,
                   p_sync, p_phase, p_creds, p_outgoing, p_pending, p_incoming,
                   c_sync, c_result, chan, receiver_pc, r_hint, r_last, sender_pc, sender_data,
                   sock_closed, wire, answered, unwaited, panicked, c_calls,
                   causes, c_prev, r_reads>>

\* ------------------------------------------------ Drop for Client
\* 3 means this client and 2 fibers.
\* A variant that closes only at exactly this client and 2 fibers.
drop_closes_exact(count) == count = 3

drop_closes(count) == count <= 3

ClientDrop(h) ==
    /\ panicked = {}
    /\ h_st[h] = "idle"
    /\ IF drop_closes(StrongCount)
       THEN /\ state' = ClosedManually
            /\ close_token' = FALSE
            /\ worker_handles' = {}
            /\ waker_changed' = TRUE
            /\ sock_closed' = (sock_closed \/ close_token)
            /\ h_st' = [h_st EXCEPT ![h] =
                            IF worker_handles = {} \/ (receiver_pc = "exited" /\ sender_pc = "exited")
                            THEN "dropped" ELSE "joining"]
       ELSE /\ h_st' = [h_st EXCEPT ![h] = "dropped"]
            /\ UNCHANGED <<state, close_token, worker_handles, waker_changed, sock_closed>>
    /\ UNCHANGED <<awaiting_response, p_sync, p_phase, p_creds, p_outgoing, p_pending,
                   p_incoming, c_sync, c_result, chan, receiver_pc, r_hint, r_last, sender_pc,
                   sender_data, wire, answered, unwaited, panicked, c_calls,
                   causes, c_prev, r_reads>>

\* handle.join() returns for both workers: drop returns and the Rc is released.
ClientDropJoined(h) ==
    /\ panicked = {}
    /\ h_st[h] = "joining"
    /\ receiver_pc = "exited"
    /\ sender_pc = "exited"
    /\ h_st' = [h_st EXCEPT ![h] = "dropped"]
    /\ UNCHANGED <<state, awaiting_response, close_token, worker_handles, waker_changed,
                   p_sync, p_phase, p_creds, p_outgoing, p_pending, p_incoming,
                   c_sync, c_result, chan, receiver_pc, r_hint, r_last, sender_pc, sender_data,
                   sock_closed, wire, answered, unwaited, panicked, c_calls,
                   causes, c_prev, r_reads>>

\* ------------------------------------------------ handle_result!
\* The Err arm: the state, the drained table, the notified subscribers.
\* A variant that re-opens the connection.
handle_result_reopens(text) == Alive

handle_result_state(text) == ClosedWithError(text)
handle_result_keep(table) == table

handle_result_drain(table) == EmptyMap

\* The Receiver half of the channel registered under s for handle h still exists.
ReceiverHalfLive(h, s) == h_st[h] = "awaiting" /\ c_sync[h] = s /\ chan[h].st = "open"

\* A variant that fails only the subscriber of the lowest sync.
handle_result_notify_first(ch, table, text) ==
    [h \in Handles |->
        IF \E s \in DOMAIN table : /\ table[s] = h
                                  /\ ReceiverHalfLive(h, s)
                                  /\ \A k \in DOMAIN table : s <= k
        THEN ErrChan(text) ELSE ch[h]]

handle_result_notify(ch, table, text) ==
    [h \in Handles |->
        IF \E s \in DOMAIN table : table[s] = h /\ ReceiverHalfLive(h, s)
        THEN ErrChan(text) ELSE ch[h]]

HandleResultErr(text) ==
    /\ state' = handle_result_state(text)
    /\ awaiting_response' = handle_result_drain(awaiting_response)
    /\ chan' = handle_result_notify(chan, awaiting_response, text)
    /\ causes' = causes \cup {text}

\* ------------------------------------------------ sender
\* The loop from its top to the next suspension; `changed` is the waker's flag.
SenderLoop(changed) ==
    IF is_closed(state)
    THEN /\ sender_pc' = "exited"
         /\ sender_data' = <<>>
         /\ waker_changed' = changed
         /\ UNCHANGED p_outgoing
    ELSE IF p_outgoing # <<>>
         THEN /\ sender_pc' = "writing"
              /\ sender_data' = p_outgoing
              /\ p_outgoing' = <<>>
              /\ waker_changed' = changed
         ELSE /\ sender_pc' = "waiting"
              /\ sender_data' = <<>>
              /\ waker_changed' = FALSE
              /\ UNCHANGED p_outgoing

\* waker.changed() returns.
SenderWake ==
    /\ panicked = {}
    /\ sender_pc = "waiting"
    /\ waker_changed
    /\ SenderLoop(FALSE)
    /\ UNCHANGED <<state, awaiting_response, close_token, worker_handles,
                   p_sync, p_phase, p_creds, p_pending, p_incoming,
                   h_st, c_sync, c_result, chan, receiver_pc, r_hint, r_last,
                   sock_closed, wire, answered, unwaited, panicked, c_calls,
                   causes, c_prev, r_reads>>

\* writer.write_all(&data) returns.
SenderWritten ==
    /\ panicked = {}
    /\ sender_pc = "writing"
    /\ \/ /\ ~sock_closed
          /\ wire' = wire \o sender_data
          /\ SenderLoop(waker_changed)
          /\ UNCHANGED <<state, awaiting_response, chan, causes>>
       \/ /\ \E m \in 0..(Len(sender_data) - 1) : \E torn \in BOOLEAN :
                wire' = wire \o SubSeq(sender_data, 1, m)
                             \o (IF torn THEN <<TornFrame(sender_data[m + 1])>> ELSE <<>>)
          /\ HandleResultErr(WriteError)
          /\ sender_pc' = "exited"
          /\ sender_data' = <<>>
          /\ UNCHANGED <<p_outgoing, waker_changed>>
    /\ UNCHANGED <<close_token, worker_handles, p_sync, p_phase, p_creds, p_pending,
                   p_incoming, h_st, c_sync, c_result, receiver_pc, r_hint, r_last,
                   sock_closed, answered, unwaited, panicked, c_calls, c_prev, r_reads>>

\* ------------------------------------------------ receiver
\* The key under which the receiver looks the subscription up.
\* A variant that takes the oldest entry of the table instead.
subscription_key_first(table, s) ==
    IF DOMAIN table = {} THEN s
    ELSE CHOOSE k \in DOMAIN table : \A j \in DOMAIN table : k <= j

subscription_key(table, s) == s

\* The size of the buffer read_exact fills: vec![0; size], vec![0; 5].
\* A variant that reads one byte less.
read_size_short(hint) == hint.size - 1

read_size(hint) == hint.size

\* The decoded value of a read that is no length prefix.
NoLength == -2

\* A completed read: its size and, for a length prefix, the decoded value.
ReadOf(hint, n) == [size |-> read_size(hint), decoded |-> n]

\* `if new_hint > 0`
\* A variant that takes a zero length for a frame.
hint_accepted_zero(n) == n >= 0

hint_accepted(n) == n > 0

\* reader.read_exact fails.
ReceiverReadFailed ==
    /\ panicked = {}
    /\ receiver_pc = "reading"
    /\ HandleResultErr(ReadError)
    /\ receiver_pc' = "exited"
    /\ UNCHANGED <<close_token, worker_handles, waker_changed, p_sync, p_phase, p_creds,
                   p_outgoing, p_pending, p_incoming, h_st, c_sync, c_result,
                   r_hint, r_last, sender_pc, sender_data, sock_closed, wire, answered,
                   unwaited, panicked, c_calls, c_prev, r_reads>>

\* The FirstU32 arm: five bytes were read; n < 0 stands for bytes that are
\* no u32, n >= 0 for the decoded length.  The peer announces a frame only
\* when it owes a response.
ReceiverReadPrefix ==
    /\ panicked = {}
    /\ receiver_pc = "reading"
    /\ ~sock_closed
    /\ r_hint.kind = "FirstU32"
    /\ \E n \in (-1)..MaxFrameLen :
         /\ r_reads' = Append(r_reads, ReadOf(r_hint, n))
         /\ IF n < 0
            THEN /\ HandleResultErr(DecodeError)
                 /\ receiver_pc' = "exited"
                 /\ UNCHANGED r_hint
            ELSE IF hint_accepted(n)
                 THEN /\ n > 0 => (Unanswered # {} \/ AuthDue)
                      /\ r_hint' = Hint(n)
                      /\ receiver_pc' = IF is_closed(state) THEN "exited" ELSE "reading"
                      /\ UNCHANGED <<state, awaiting_response, chan, causes>>
                 ELSE /\ HandleResultErr(ZeroLengthError)
                      /\ receiver_pc' = "exited"
                      /\ UNCHANGED r_hint
    /\ UNCHANGED <<close_token, worker_handles, waker_changed, p_sync, p_phase, p_creds,
                   p_outgoing, p_pending, p_incoming, h_st, c_sync, c_result,
                   r_last, sender_pc, sender_data, sock_closed, wire, answered,
                   unwaited, panicked, c_calls, c_prev>>

\* The Hint arm, process_incoming fails on the bytes read.
ReceiverReadMalformed ==
    /\ panicked = {}
    /\ receiver_pc = "reading"
    /\ ~sock_closed
    /\ r_hint.kind = "Hint"
    /\ r_reads' = Append(r_reads, ReadOf(r_hint, NoLength))
    /\ HandleResultErr(DecodeError)
    /\ receiver_pc' = "exited"
    /\ UNCHANGED <<close_token, worker_handles, waker_changed, p_sync, p_phase, p_creds,
                   p_outgoing, p_pending, p_incoming, h_st, c_sync, c_result,
                   r_hint, r_last, sender_pc, sender_data, sock_closed, wire, answered,
                   unwaited, panicked, c_calls, c_prev>>

\* The Hint arm, the bytes are the greeting: process_incoming returns None.
ReceiverReadGreeting ==
    /\ panicked = {}
    /\ receiver_pc = "reading"
    /\ ~sock_closed
    /\ r_hint.kind = "Hint"
    /\ r_reads' = Append(r_reads, ReadOf(r_hint, NoLength))
    /\ p_phase = "greeting"
    /\ IF p_creds
       THEN /\ p_phase' = "auth"
            /\ p_sync' = protocol_next_sync(p_sync)
            /\ p_outgoing' = Append(p_outgoing, AuthFrame(protocol_next_sync(p_sync)))
            /\ UNCHANGED p_pending
       ELSE /\ p_phase' = "ready"
            /\ p_outgoing' = p_outgoing \o p_pending
            /\ p_pending' = <<>>
            /\ UNCHANGED p_sync
    /\ r_hint' = FirstU32
    /\ r_last' = 0
    /\ waker_changed' = wake_sender(p_outgoing', waker_changed)
    /\ receiver_pc' = IF is_closed(state) THEN "exited" ELSE "reading"
    /\ UNCHANGED <<state, awaiting_response, close_token, worker_handles, p_creds,
                   p_incoming, h_st, c_sync, c_result, chan, sender_pc, sender_data,
                   sock_closed, wire, answered, unwaited, panicked, c_calls,
                   causes, c_prev>>

\* The Hint arm, the bytes are the response to the authentication request.
ReceiverReadAuth ==
    /\ panicked = {}
    /\ receiver_pc = "reading"
    /\ ~sock_closed
    /\ r_hint.kind = "Hint"
    /\ r_reads' = Append(r_reads, ReadOf(r_hint, NoLength))
    /\ AuthDue
    /\ p_phase' = "ready"
    /\ p_outgoing' = p_outgoing \o p_pending
    /\ p_pending' = <<>>
    /\ r_hint' = FirstU32
    /\ r_last' = 0
    /\ waker_changed' = wake_sender(p_outgoing', waker_changed)
    /\ receiver_pc' = IF is_closed(state) THEN "exited" ELSE "reading"
    /\ UNCHANGED <<state, awaiting_response, close_token, worker_handles, p_sync, p_creds,
                   p_incoming, h_st, c_sync, c_result, chan, sender_pc, sender_data,
                   sock_closed, wire, answered, unwaited, panicked, c_calls,
                   causes, c_prev>>

\* The Hint arm, the bytes are the response frame whose header carries sync
\* hs: process_incoming stores it and returns Some(hs).
ReceiverReadResponse ==
    /\ panicked = {}
    /\ receiver_pc = "reading"
    /\ ~sock_closed
    /\ r_hint.kind = "Hint"
    /\ r_reads' = Append(r_reads, ReadOf(r_hint, NoLength))
    /\ p_phase = "ready"
    /\ \E hs \in Unanswered : \E status \in {"ok", "error"} :
         LET key == subscription_key(awaiting_response, hs)
         IN  /\ answered' = answered \cup {hs}
             /\ p_incoming' = MapInsert(p_incoming, hs, [status |-> status, body |-> hs])
             /\ r_last' = hs
             /\ IF key \in DOMAIN awaiting_response
                THEN /\ awaiting_response' = MapRemove(awaiting_response, key)
                     /\ IF ReceiverHalfLive(awaiting_response[key], key)
                        THEN /\ chan' = [chan EXCEPT ![awaiting_response[key]] = OkChan]
                             /\ UNCHANGED panicked
                        ELSE /\ panicked' = {"cannot be closed at this point"}
                             /\ UNCHANGED chan
                     /\ UNCHANGED unwaited
                ELSE /\ unwaited' = unwaited \cup {hs}
                     /\ UNCHANGED <<awaiting_response, chan, panicked>>
    /\ r_hint' = FirstU32
    /\ waker_changed' = wake_sender(p_outgoing, waker_changed)
    /\ receiver_pc' = IF is_closed(state) THEN "exited" ELSE "reading"
    /\ UNCHANGED <<state, close_token, worker_handles, p_sync, p_phase, p_creds,
                   p_outgoing, p_pending, h_st, c_sync, c_result, sender_pc, sender_data,
                   sock_closed, wire, c_calls,
                   causes, c_prev>>

\* ------------------------------------------------ Timeout
\* 30 years, on the scale of MaxInstant.
FarFuture == 3
NoInstant == -1

\* Instant::checked_add: None when the sum is not representable.
checked_add(now, d) == IF now + d <= MaxInstant THEN now + d ELSE NoInstant

\* timeout(): the deadline; a value above MaxInstant is the panic of
\* `now + Duration` on overflow.
timeout_deadline(now, d) ==
    IF checked_add(now, d) # NoInstant THEN checked_add(now, d) ELSE now + FarFuture

\* Timeout::poll: Instant::now() > deadline
deadline_passed_early(now, deadline) == now >= deadline

deadline_passed(now, deadline) == now > deadline

\* A variant of poll that looks at the deadline before the inner future.
poll_result_deadline_first(ready, passed) ==
    IF passed THEN "Expired" ELSE IF ready THEN "Ok" ELSE "Pending"

\* Timeout::poll: the inner future first, then the deadline.
poll_result(ready, passed) ==
    IF ready THEN "Ok" ELSE IF passed THEN "Expired" ELSE "Pending"

InnerOutputs == {1, 2}

NoPoll == [kind |-> "none", val |-> 0]

InitTimeout ==
    /\ t_now \in 0..MaxInstant
    /\ t_pc = "new"
    /\ t_created = 0
    /\ t_duration = 0
    /\ t_deadline = 0
    /\ t_inner \in {"never", "pending", "ready"}
    /\ t_value \in InnerOutputs
    /\ t_result = NoPoll
    /\ t_sched = NoInstant

InitTimeoutIdle == InitTimeout /\ t_now = 0 /\ t_inner = "never" /\ t_value = 1

\* timeout(d, f)
TimeoutNew ==
    /\ t_pc = "new"
    /\ \E d \in 0..MaxDuration :
         /\ t_duration' = d
         /\ t_created' = t_now
         /\ IF timeout_deadline(t_now, d) <= MaxInstant
            THEN /\ t_deadline' = timeout_deadline(t_now, d)
                 /\ t_pc' = "polling"
            ELSE /\ t_pc' = "panicked"
                 /\ UNCHANGED t_deadline
    /\ UNCHANGED <<t_now, t_inner, t_value, t_result, t_sched>>

\* The clock advances.
Tick ==
    /\ t_now < MaxInstant
    /\ t_now' = t_now + 1
    /\ UNCHANGED <<t_pc, t_created, t_duration, t_deadline, t_inner, t_value,
                   t_result, t_sched>>

\* The inner future becomes ready (the oneshot sender sends).
InnerReady ==
    /\ t_inner = "pending"
    /\ t_pc \in {"new", "polling"}
    /\ t_inner' = "ready"
    /\ UNCHANGED <<t_now, t_pc, t_created, t_duration, t_deadline, t_value,
                   t_result, t_sched>>

\* The task is polled: for the first time, because the inner future woke it,
\* or because the scheduler slept until the recorded deadline.
SchedulerPolls ==
    \/ t_result = NoPoll
    \/ t_inner = "ready"
    \/ (t_sched # NoInstant /\ t_now >= t_sched)

\* Timeout::poll
TimeoutPoll ==
    /\ t_pc = "polling"
    /\ SchedulerPolls
    /\ LET r == poll_result(t_inner = "ready", deadline_passed(t_now, t_deadline))
       IN  /\ t_result' = [kind |-> r, val |-> IF r = "Ok" THEN t_value ELSE 0]
           /\ t_pc' = IF r = "Pending" THEN "polling" ELSE "done"
           /\ t_sched' = IF r = "Pending" THEN t_deadline ELSE t_sched
    /\ UNCHANGED <<t_now, t_created, t_duration, t_deadline, t_inner, t_value>>

\* ------------------------------------------------ Client::connect_with_config
Connectors == 1..NConnects

\* What TcpStream::connect resolves to.
TcpFailures == {"failed to resolve address", "connection refused", "connection timed out"}
TcpOutcomes == {"ok"} \cup TcpFailures

\* Error::Tcp(#[from] TcpError)
TcpErr(e) == [kind |-> "Tcp", text |-> e]
OkClient == [kind |-> "Ok", text |-> ""]
NoClient == [kind |-> "none", text |-> ""]
DroppedConnect == [kind |-> "cancelled", text |-> ""]

InitConnect ==
    /\ cn_pc = [c \in Connectors |-> "idle"]
    /\ cn_creds = [c \in Connectors |-> FALSE]
    /\ cn_inner = [c \in Connectors |-> FALSE]
    /\ cn_watch = [c \in Connectors |-> FALSE]
    /\ cn_token = [c \in Connectors |-> FALSE]
    /\ cn_fibers = [c \in Connectors |-> {}]
    /\ cn_outcome = [c \in Connectors |-> "none"]
    /\ cn_result = [c \in Connectors |-> NoClient]

\* The `?` on the result of TcpStream::connect.
\* A variant that goes on whatever the result.
connect_try_ignore(outcome) == "continue"

connect_try(outcome) == IF outcome = "ok" THEN "continue" ELSE "return"

\* From the call to the suspension at TcpStream::connect(..).await.
ConnectCall(c) ==
    /\ cn_pc[c] = "idle"
    /\ \E creds \in BOOLEAN : cn_creds' = [cn_creds EXCEPT ![c] = creds]
    /\ cn_watch' = [cn_watch EXCEPT ![c] = TRUE]
    /\ cn_inner' = [cn_inner EXCEPT ![c] = TRUE]
    /\ cn_pc' = [cn_pc EXCEPT ![c] = "connecting"]
    /\ UNCHANGED <<cn_token, cn_fibers, cn_outcome, cn_result>>

\* TcpStream::connect resolves; the rest of the function runs to its return.
ConnectResolved(c) ==
    /\ cn_pc[c] = "connecting"
    /\ \E outcome \in TcpOutcomes :
         /\ cn_outcome' = [cn_outcome EXCEPT ![c] = outcome]
         /\ IF connect_try(outcome) = "return"
            THEN /\ cn_result' = [cn_result EXCEPT ![c] = TcpErr(outcome)]
                 /\ cn_inner' = [cn_inner EXCEPT ![c] = FALSE]
                 /\ cn_watch' = [cn_watch EXCEPT ![c] = FALSE]
                 /\ UNCHANGED <<cn_token, cn_fibers>>
            ELSE /\ cn_token' = [cn_token EXCEPT ![c] = TRUE]
                 /\ cn_fibers' = [cn_fibers EXCEPT ![c] = {"receiver", "sender"}]
                 /\ cn_result' = [cn_result EXCEPT ![c] = OkClient]
                 /\ UNCHANGED <<cn_inner, cn_watch>>
    /\ cn_pc' = [cn_pc EXCEPT ![c] = "done"]
    /\ UNCHANGED cn_creds

\* The future of connect_with_config is dropped at its await (a Timeout
\* around it expired): its locals are dropped with it.
ConnectDropped(c) ==
    /\ cn_pc[c] = "connecting"
    /\ cn_result' = [cn_result EXCEPT ![c] = DroppedConnect]
    /\ cn_inner' = [cn_inner EXCEPT ![c] = FALSE]
    /\ cn_watch' = [cn_watch EXCEPT ![c] = FALSE]
    /\ cn_pc' = [cn_pc EXCEPT ![c] = "done"]
    /\ UNCHANGED <<cn_creds, cn_token, cn_fibers, cn_outcome>>

\* ------------------------------------------------ RefCell<ClientInner>
\* The suspension points of the tasks, and whether a borrow of the cell is
\* live there: every borrow()/borrow_mut() is a temporary of one statement,
\* the `client` of Drop is dropped before the close token and the joins, the
\* `client_ref` of the FirstU32 arm ends with the arm.
\* A variant in which Drop keeps its RefMut while it joins the workers.
held_at_join(point) == point = "fiber join"

held_at(point) == point \in {}

SendPoint(h) == IF h_st[h] = "awaiting" THEN "response wait" ELSE "return"
DropPoint(h) == IF h_st[h] = "joining" THEN "fiber join" ELSE "return"
SenderPoint ==
    CASE sender_pc = "waiting" -> "waker wait"
      [] sender_pc = "writing" -> "socket write"
      [] OTHER -> "return"
ReceiverPoint == IF receiver_pc = "reading" THEN "socket read" ELSE "return"

clientvars_but_panicked ==
    <<state, awaiting_response, close_token, worker_handles, waker_changed,
      p_sync, p_phase, p_creds, p_outgoing, p_pending, p_incoming,
      h_st, c_sync, c_result, chan,
      receiver_pc, r_hint, r_last, sender_pc, sender_data,
      sock_closed, wire, answered, unwaited, c_calls, causes, c_prev, r_reads>>

\* The step A of a task: when it borrows the cell (uses) while a suspended
\* task holds a borrow it panics with BorrowMutError; else it runs to its next
\* suspension point, where it may keep a borrow.
Borrowing(A, uses, point) ==
    IF uses /\ borrowed
    THEN /\ panicked = {}
         /\ ENABLED A
         /\ panicked' = {"already borrowed"}
         /\ UNCHANGED <<clientvars_but_panicked, borrowed>>
    ELSE /\ A
         /\ borrowed' = (borrowed \/ held_at(point))

\* ------------------------------------------------ write_to_buffer, any length
\* Offsets and lengths are u64. The integers of the checker end at 2^31 - 1, so
\* a u64 is kept as four 16-bit limbs, lowest first.
LimbSamples == {0, 1, 2, 255, 256, 65535}
PayloadLengths ==
    {<<a, b, c, 0>> : a \in LimbSamples, b \in LimbSamples, c \in 0..MaxHighLimb}
Zero64 == <<0, 0, 0, 0>>

\* `(payload_end_offset - payload_start_offset) as u32`: the low 32 bits
as_u32(n) == <<n[1], n[2], 0, 0>>

\* rmp::encode::write_u32 of a u32: marker 0xce and 4 big-endian bytes
write_u32(v) == <<Marker, v[2] \div 256, v[2] % 256, v[1] \div 256, v[1] % 256>>

\* rmp::decode::read_u32 of 5 bytes, widened to u64
read_u32(b) == <<b[4] * 256 + b[5], b[2] * 256 + b[3], 0, 0>>

InitWrite ==
    /\ w_pc = "idle"
    /\ w_len \in PayloadLengths
    /\ w_ok \in BOOLEAN
    /\ w_prefix = <<>>
    /\ w_pos = "msg_start_offset"
    /\ w_result = "none"

InitWriteIdle == InitWrite /\ w_len = Zero64 /\ w_ok

\* write_to_buffer with a payload_producer that writes w_len bytes
WriteToBuffer ==
    /\ w_pc = "idle"
    /\ w_pc' = "returned"
    /\ IF w_ok
       THEN /\ w_prefix' = write_u32(as_u32(w_len))
            /\ w_pos' = "payload_end_offset"
            /\ w_result' = "Ok"
       ELSE /\ w_prefix' = write_u32(Zero64)
            /\ w_pos' = "payload_producer"
            /\ w_result' = "Err"
    /\ UNCHANGED <<w_len, w_ok>>

\* ------------------------------------------------ RecvQueue
\* src/src/net_box/recv_queue.rs. The fibers calling recv are the calling
\* fibers of the SendQueue; one more fiber calls pull again and again.
PullerFiber == <<"puller", 0>>

\* the syncs of the responses the peer sends, each at most once, in any order
Responses == 1..MaxResponses

\* Header: its sync and status_code (0, or 1 for any error code); None
StatusCodes == {0, 1}
NoHeader == [sync |-> 0, status_code |-> 0]

\* Cursor<Vec<u8>> of the RecvQueue: the message whose bytes it holds, and
\* whether all of them are there (recv_message clears it, then fills it)
EmptyBuffer == [sync |-> 0, whole |-> TRUE]

InitRecv ==
    /\ rq_buffer = EmptyBuffer
    /\ rq_header = NoHeader
    /\ cond_map = EmptyMap
    /\ rq_lock = [owner |-> NoFiber, queue |-> <<>>]
    /\ rc_pc = [c \in Callers |-> "idle"]
    /\ rc_sync = [c \in Callers |-> 0]
    /\ rc_timeout = [c \in Callers |-> FALSE]
    /\ rc_result = [c \in Callers |-> "none"]
    /\ pl_pc = "ready"
    /\ pl_header = NoHeader
    /\ rq_requested = {}
    /\ rq_arrived = {}
    /\ rq_dropped = {}
    /\ rq_timedout = {}
    /\ rq_reads = {}
    /\ rq_panicked = FALSE

InitNetBoxIdle == InitWriteIdle /\ InitRecv

\* recv, lines 46-53: under the lock the Cond goes into cond_map; then the wait
RecvRegistered(c, s, held) ==
    /\ cond_map' = MapInsert(cond_map, s, c)
    /\ rq_lock' = LatchUnlock(held)
    /\ rc_pc' = [rc_pc EXCEPT ![c] = "wait"]

\* recv is called with a sync no other call was given
RecvCall(c) ==
    /\ rc_pc[c] = "idle"
    /\ \E s \in Responses \ rq_requested : \E t \in BOOLEAN :
          /\ rc_sync' = [rc_sync EXCEPT ![c] = s]
          /\ rc_timeout' = [rc_timeout EXCEPT ![c] = t]
          /\ rc_result' = [rc_result EXCEPT ![c] = "none"]
          /\ rq_requested' = rq_requested \cup {s}
          /\ IF LatchFree(rq_lock)
             THEN RecvRegistered(c, s, LatchTake(rq_lock, CallerFiber(c)))
             ELSE /\ rq_lock' = LatchEnqueue(rq_lock, CallerFiber(c))
                  /\ rc_pc' = [rc_pc EXCEPT ![c] = "insert_lock"]
                  /\ UNCHANGED cond_map
    /\ UNCHANGED <<rq_buffer, rq_header, pl_pc, pl_header, rq_arrived, rq_dropped,
                   rq_timedout, rq_reads, rq_panicked>>

RecvInsertAcquired(c) ==
    /\ rc_pc[c] = "insert_lock"
    /\ rq_lock.owner = CallerFiber(c)
    /\ RecvRegistered(c, rc_sync[c], rq_lock)
    /\ UNCHANGED <<rq_buffer, rq_header, rc_sync, rc_timeout, rc_result, pl_pc, pl_header,
                   rq_requested, rq_arrived, rq_dropped, rq_timedout, rq_reads, rq_panicked>>

\* Cond::wait_timeout: the timeout can fire while the fiber waits, and also
\* when it has been signalled and has not run yet; the call then returns false
timer_armed(pc) == pc \in {"wait", "signaled"}

RecvTimerFires(c) ==
    /\ rc_timeout[c]
    /\ timer_armed(rc_pc[c])
    /\ rc_pc' = [rc_pc EXCEPT ![c] = "timed_out"]
    /\ UNCHANGED <<rq_buffer, rq_header, cond_map, rq_lock, rc_sync, rc_timeout, rc_result,
                   pl_pc, pl_header, rq_requested, rq_arrived, rq_dropped, rq_timedout,
                   rq_reads, rq_panicked>>

\* A timed-out recv that leaves its entry behind.
timeout_remove_keeps(table, s) == table

\* recv, line 70: cond_map.remove(&sync)
timeout_remove(table, s) == MapRemove(table, s)

\* recv, lines 69-71: the branch of a wait that was not signalled
RecvRemoveLocked(c, held) ==
    /\ cond_map' = timeout_remove(cond_map, rc_sync[c])
    /\ rq_lock' = LatchUnlock(held)
    /\ rc_pc' = [rc_pc EXCEPT ![c] = "idle"]
    /\ rc_result' = [rc_result EXCEPT ![c] = "TimedOut"]
    /\ rq_timedout' = rq_timedout \cup {[sync |-> rc_sync[c],
                                          arrived |-> rc_sync[c] \in rq_arrived]}

RecvTimedOut(c) ==
    /\ rc_pc[c] = "timed_out"
    /\ IF LatchFree(rq_lock)
       THEN RecvRemoveLocked(c, LatchTake(rq_lock, CallerFiber(c)))
       ELSE /\ rq_lock' = LatchEnqueue(rq_lock, CallerFiber(c))
            /\ rc_pc' = [rc_pc EXCEPT ![c] = "remove_lock"]
            /\ UNCHANGED <<cond_map, rc_result, rq_timedout>>
    /\ UNCHANGED <<rq_buffer, rq_header, rc_sync, rc_timeout, pl_pc, pl_header,
                   rq_requested, rq_arrived, rq_dropped, rq_reads, rq_panicked>>

RecvRemoveAcquired(c) ==
    /\ rc_pc[c] = "remove_lock"
    /\ rq_lock.owner = CallerFiber(c)
    /\ RecvRemoveLocked(c, rq_lock)
    /\ UNCHANGED <<rq_buffer, rq_header, rc_sync, rc_timeout, pl_pc, pl_header,
                   rq_requested, rq_arrived, rq_dropped, rq_reads, rq_panicked>>

\* the ways through the signalled branch of recv
RecvPaths(h) == IF h.status_code # 0 THEN {"status"} ELSE {"ok", "consumer_err"}

RecvResult(path) ==
    IF path = "ok" THEN "Ok" ELSE IF path = "consumer_err" THEN "ConsumerErr" ELSE "ResponseErr"

\* recv, lines 59-66: the return at line 60 leaves before read_completed_cond.signal()
recv_signals(path) == path # "status"

\* recv, lines 56-67: the branch of a signalled wait
RecvReadLocked(c, held) ==
    /\ rq_lock' = LatchUnlock(held)
    /\ IF rq_header = NoHeader
       THEN \* unwrap of None
            /\ rq_panicked' = TRUE
            /\ rc_pc' = [rc_pc EXCEPT ![c] = "panicked"]
            /\ UNCHANGED <<rq_header, rq_reads, rc_result, pl_pc>>
       ELSE \E path \in RecvPaths(rq_header) :
            /\ rq_header' = NoHeader
            /\ rq_reads' = rq_reads \cup {[sync |-> rc_sync[c], header |-> rq_header.sync,
                                           buffer |-> rq_buffer]}
            /\ rc_result' = [rc_result EXCEPT ![c] = RecvResult(path)]
            /\ rc_pc' = [rc_pc EXCEPT ![c] = "idle"]
            /\ pl_pc' = IF recv_signals(path) /\ pl_pc = "read_completed_wait"
                        THEN "ready" ELSE pl_pc
            /\ UNCHANGED rq_panicked

RecvSignaled(c) ==
    /\ rc_pc[c] = "signaled"
    /\ IF LatchFree(rq_lock)
       THEN RecvReadLocked(c, LatchTake(rq_lock, CallerFiber(c)))
       ELSE /\ rq_lock' = LatchEnqueue(rq_lock, CallerFiber(c))
            /\ rc_pc' = [rc_pc EXCEPT ![c] = "read_lock"]
            /\ UNCHANGED <<rq_header, rq_reads, rc_result, pl_pc, rq_panicked>>
    /\ UNCHANGED <<rq_buffer, cond_map, rc_sync, rc_timeout, pl_header, rq_requested,
                   rq_arrived, rq_dropped, rq_timedout>>

RecvReadAcquired(c) ==
    /\ rc_pc[c] = "read_lock"
    /\ rq_lock.owner = CallerFiber(c)
    /\ RecvReadLocked(c, rq_lock)
    /\ UNCHANGED <<rq_buffer, cond_map, rc_sync, rc_timeout, pl_header, rq_requested,
                   rq_arrived, rq_dropped, rq_timedout>>

\* pull, lines 78-81: the lock is taken and recv_message clears the buffer
\* before it reads the body from the stream
PullLocked(held, h) ==
    /\ rq_lock' = held
    /\ rq_buffer' = [sync |-> h.sync, whole |-> FALSE]
    /\ pl_pc' = "recv_message"

\* pull, line 76: the length of the next response has been read
PullRead ==
    /\ pl_pc = "ready"
    /\ \E s \in Responses \ rq_arrived : \E code \in StatusCodes :
          /\ pl_header' = [sync |-> s, status_code |-> code]
          /\ rq_arrived' = rq_arrived \cup {s}
          /\ IF LatchFree(rq_lock)
             THEN PullLocked(LatchTake(rq_lock, PullerFiber), pl_header')
             ELSE /\ rq_lock' = LatchEnqueue(rq_lock, PullerFiber)
                  /\ pl_pc' = "lock_1"
                  /\ UNCHANGED rq_buffer
    /\ UNCHANGED <<rq_header, cond_map, rc_pc, rc_sync, rc_timeout, rc_result, rq_requested,
                   rq_dropped, rq_timedout, rq_reads, rq_panicked>>

\* pull, line 76: read_u32 fails
PullReadFailed ==
    /\ pl_pc = "ready"
    /\ pl_pc' = "failed"
    /\ UNCHANGED <<rq_buffer, rq_header, cond_map, rq_lock, rc_pc, rc_sync, rc_timeout,
                   rc_result, pl_header, rq_requested, rq_arrived, rq_dropped, rq_timedout,
                   rq_reads, rq_panicked>>

PullAcquired1 ==
    /\ pl_pc = "lock_1"
    /\ rq_lock.owner = PullerFiber
    /\ PullLocked(rq_lock, pl_header)
    /\ UNCHANGED <<rq_header, cond_map, rc_pc, rc_sync, rc_timeout, rc_result, pl_header,
                   rq_requested, rq_arrived, rq_dropped, rq_timedout, rq_reads, rq_panicked>>

\* A pull that goes on without waiting for the reader.
pull_waits_never(found) == FALSE

\* pull, lines 92-95: after the signal, read_completed_cond.wait()
pull_waits(found) == found

\* pull, lines 85-97: the header goes into the slot, the waiter's Cond leaves
\* cond_map and is signalled, and pull waits for the waiter to finish reading
PullPublish(held) ==
    LET s == pl_header.sync
        found == s \in DOMAIN cond_map
    IN  /\ rq_header' = pl_header
        /\ cond_map' = MapRemove(cond_map, s)
        /\ rq_lock' = LatchUnlock(held)
        /\ pl_pc' = IF pull_waits(found) THEN "read_completed_wait" ELSE "ready"
        /\ IF found
           THEN /\ rc_pc' = [rc_pc EXCEPT ![cond_map[s]] =
                                 IF @ = "wait" THEN "signaled" ELSE @]
                /\ UNCHANGED rq_dropped
           ELSE /\ rq_dropped' = rq_dropped \cup {s}
                /\ UNCHANGED rc_pc

\* pull, lines 81-90: recv_message has read the body (or failed to), the
\* header is decoded, the first lock is released and the second one taken
PullBody ==
    /\ pl_pc = "recv_message"
    /\ \/ /\ rq_buffer' = [rq_buffer EXCEPT !.whole = TRUE]
          /\ LET released == LatchUnlock(rq_lock)
             IN  IF LatchFree(released)
                 THEN PullPublish(LatchTake(released, PullerFiber))
                 ELSE /\ rq_lock' = LatchEnqueue(released, PullerFiber)
                      /\ pl_pc' = "lock_2"
                      /\ UNCHANGED <<rq_header, cond_map, rc_pc, rq_dropped>>
       \/ /\ rq_lock' = LatchUnlock(rq_lock)
          /\ pl_pc' = "failed"
          /\ UNCHANGED <<rq_buffer, rq_header, cond_map, rc_pc, rq_dropped>>
    /\ UNCHANGED <<rc_sync, rc_timeout, rc_result, pl_header, rq_requested, rq_arrived,
                   rq_timedout, rq_reads, rq_panicked>>

PullAcquired2 ==
    /\ pl_pc = "lock_2"
    /\ rq_lock.owner = PullerFiber
    /\ PullPublish(rq_lock)
    /\ UNCHANGED <<rq_buffer, rc_sync, rc_timeout, rc_result, pl_header, rq_requested,
                   rq_arrived, rq_timedout, rq_reads, rq_panicked>>

\* ------------------------------------------------ frames in a byte sequence
\* a whole frame starts at index i of s: a length prefix and as many bytes
\* after it as it announces
WholeFrameAt(s, i) ==
    /\ i + PrefixSize - 1 <= Len(s)
    /\ s[i] = Marker
    /\ DecodeU32At(s, i) <= Len(s) - (i + PrefixSize - 1)

\* s from index i on is a concatenation of whole frames
RECURSIVE FramedFrom(_, _)
FramedFrom(s, i) ==
    IF i > Len(s) THEN TRUE
    ELSE IF ~WholeFrameAt(s, i) THEN FALSE
    ELSE FramedFrom(s, i + PrefixSize + DecodeU32At(s, i))

WellFramed(s) == FramedFrom(s, 1)

\* the syncs a peer reads from s: it reads frame after frame from index i on,
\* takes the sync of each header, and stops at the first thing that is no
\* whole frame with a header
RECURSIVE ParsedSyncsFrom(_, _)
ParsedSyncsFrom(s, i) ==
    IF /\ i <= Len(s)
       /\ WholeFrameAt(s, i)
       /\ DecodeU32At(s, i) >= HeaderSize
       /\ s[i + PrefixSize] = HeaderTag
    THEN <<s[i + PrefixSize + 1]>> \o ParsedSyncsFrom(s, i + PrefixSize + DecodeU32At(s, i))
    ELSE <<>>

ParsedSyncs(s) == ParsedSyncsFrom(s, 1)

\* ------------------------------------------------ claims on SendQueue and Conn
\* C2: every value next_sync returns is strictly greater than every value it
\* returned before, whatever the interleaving of the senders and whether or
\* not the call that got the value then fails to encode its request.
C2_SyncStrictlyIncreasing == StrictlyIncreasing(issued)

\* C2's case: two senders got their tags, one of them while the other was
\* suspended, and a call that had allocated a tag failed to encode
C2_Witness ==
    /\ Len(issued) >= 2
    /\ waited # {}
    /\ \A c \in Callers : s_pc[c] = "idle"
    /\ Len(ParsedSyncs(appended)) < Len(issued)

\* C3: the k-th allocation of a connection returns k (the first returns 1),
\* so the first request on the wire carries sync 1.
C3_KthAllocationReturnsK ==
    /\ \A k \in 1..Len(issued) : issued[k] = k
    /\ \A k \in 1..Len(conn_issued) : conn_issued[k] = k
    /\ (conn_wire # <<>> /\ Len(conn_issued) = 1) => conn_wire[1] = 1

C5_StreamIsPrefixOfAppended == IsPrefix(stream, appended)

\* C6: what a flush hands to the stream is a concatenation of whole frames,
\* and so is the written part of the back buffer whenever it can be swapped.
C6_OnlyWholeFrames ==
    /\ f_pc = "write" => WellFramed(front_buffer.data)
    /\ WellFramed(SubSeq(back_buffer.data, 1, back_buffer.pos))

\* C31: a send whose payload producer fails leaves the outgoing buffer exactly
\* as it was before the call (its bytes and its position), so no byte of the
\* failed request can reach the stream, and the stream never holds more bytes
\* than the successful sends appended.
C31_FailedSendLeavesBufferUntouched ==
    /\ [][(version = "V2" /\ sync' # sync /\ appended' = appended)
             => (back_buffer' = back_buffer)]_vars
    /\ [](Len(stream) <= Len(appended))

\* C32: a flush_to_stream that returns Ok has handed every byte of the
\* swapped-out front buffer to the stream before clearing the buffer, also
\* when the stream takes fewer bytes than offered in one write call.
C32_FlushWritesWholeBuffer ==
    [][(f_pc = "write" /\ f_result' = "ok" /\ front_buffer' = EmptyCursor)
          => (stream' = stream \o front_buffer.data)]_vars

\* C33: after a successful write_to_buffer the length prefix is 5 bytes, it
\* decodes to the number of bytes the producer wrote, whatever that number is
\* (also one that does not fit in 32 bits), and the cursor is at the end of the
\* payload.
C33_PrefixIsPayloadLength ==
    (w_pc = "returned" /\ w_result = "Ok") =>
        /\ Len(w_prefix) = PrefixSize
        /\ w_prefix[1] = Marker
        /\ read_u32(w_prefix) = w_len
        /\ w_pos = "payload_end_offset"

\* C34: close stops the flusher. A flush_to_stream waiting on swap_cond is
\* woken by close (it never stays in the wait once is_active is false); a
\* flush woken by close or started after it leaves the loop only by returning
\* the error; and when close found the flusher waiting or not running,
\* nothing is written to the stream from then on.
C34_CloseStopsFlusher ==
    /\ [](~is_active => f_pc # "cond_wait")
    /\ [][(~is_active /\ f_pc \in {"loop", "lock_wait"} /\ f_pc' # f_pc)
             => \/ f_pc' = "lock_wait"
                \/ f_pc' = "idle" /\ f_result' = "closed"]_vars
    /\ [][(closed_at \in {"cond_wait", "idle"}) => (stream' = stream)]_vars

\* C34's case: close found the flusher waiting for data, after an earlier
\* flush had written a request; the woken flush has returned the error
C34_Witness ==
    /\ closed_at = "cond_wait"
    /\ f_pc = "idle"
    /\ f_result = "closed"
    /\ stream # <<>>

\* C35: after close a send returns an error: it allocates no sync tag and
\* appends no bytes to the back buffer.
C35_SendAfterCloseFails ==
    [][~is_active => (sync' = sync /\ issued' = issued /\ back_buffer' = back_buffer)]_vars

\* the frame of the request with sync s and a payload of n bytes
FrameOf(s, n) == EncodeU32(n) \o ProducerBytes(s, n)

\* the bytes f stand somewhere in t, one after the other
Occurs(f, t) == \E i \in 1..(Len(t) - Len(f) + 1) : SubSeq(t, i, i + Len(f) - 1) = f

\* C36: while the queue is active and the flusher keeps calling
\* flush_to_stream, every request sent with success is eventually in the
\* stream (unless the stream reports an error); the signals send gives are
\* enough: the flusher never waits on swap_cond while a finished send has
\* left the back buffer non-empty.
C36_SentIsEventuallyWritten ==
    /\ [](f_pc = "cond_wait" =>
             (back_buffer.pos = 0 \/ \E c \in Callers : s_pc[c] = "producing"))
    /\ \A s \in 1..MaxSends : \A n \in HeaderSize..MaxPayload :
          Occurs(FrameOf(s, n), appended)
              ~> (Occurs(FrameOf(s, n), stream) \/ ~is_active \/ f_result = "io_err")

\* ------------------------------------------------ claims on RecvQueue
\* C37: a waiter that pull has signalled signals read completion on every
\* path through recv (success, consumer error, response with a non-zero
\* status code): when it returns, the waiting pull is resumed.
C37_ReaderResumesPull ==
    [][\A c \in Callers :
          (rc_pc[c] \in {"signaled", "read_lock"} /\ rc_pc'[c] = "idle"
              /\ pl_pc = "read_completed_wait")
          => (pl_pc' = "ready")]_vars

\* C38: a waiter woken by pull finds a header, and it is the header of its own
\* sync; and no recv waits for a response that pull has already read and
\* found no waiter for (a response pulled before its recv registered is still
\* delivered to it).
C38_EachCallerGetsItsResponse ==
    /\ ~rq_panicked
    /\ \A r \in rq_reads : r.header = r.sync
    /\ \A c \in Callers : rc_pc[c] = "wait" => rc_sync[c] \notin rq_dropped

\* C39: while a signalled waiter still has to read, pull waits for it: the
\* header slot and the buffer hold that waiter's message, whole; and what a
\* waiter reads is its message, whole. Also when the waiter's timeout fires
\* at the moment it is signalled.
C39_NoOverwriteBeforeRead ==
    /\ \A c \in Callers :
          rc_pc[c] \in {"signaled", "read_lock"} =>
              /\ pl_pc = "read_completed_wait"
              /\ rq_header.sync = rc_sync[c]
              /\ rq_buffer = [sync |-> rc_sync[c], whole |-> TRUE]
    /\ \A r \in rq_reads : r.buffer = [sync |-> r.sync, whole |-> TRUE]

\* C39's case: one waiter has read its message and pull went on; the next
\* waiter's timeout fired as pull signalled it, it returned TimedOut without
\* reading, and its message is still in the slot and in the buffer
C39_Witness ==
    /\ rq_reads # {}
    /\ \E c \in Callers :
          /\ rc_result[c] = "TimedOut"
          /\ rc_pc[c] = "idle"
          /\ rc_sync[c] \in rq_arrived \ rq_dropped
          /\ rq_header.sync = rc_sync[c]
          /\ rq_buffer = [sync |-> rc_sync[c], whole |-> TRUE]
          /\ pl_pc = "read_completed_wait"

\* the syncs whose recv returned TimedOut
TimedOutSyncs == {t.sync : t \in rq_timedout}

InFlight == {h \in Handles : ReceiverHalfLive(h, c_sync[h])}

\* C1: with any number of sends in flight and responses arriving in any order,
\* a caller's channel is signalled Ok only in the step in which the receiver
\* processes the frame whose header sync is the caller's own sync, the caller
\* then takes (and removes) the response stored under that sync, and a send
\* that returned Ok returned the response to its own request.
C1_SignalledByOwnSync ==
    [][\A h \in Handles :
        /\ (chan[h].st = "open" /\ chan'[h].st = "ok") =>
                /\ r_last' = c_sync[h]
                /\ c_sync[h] \in answered' \ answered
                /\ c_sync[h] \in DOMAIN p_incoming'
        /\ (h_st[h] = "awaiting" /\ h_st'[h] = "idle" /\ c_result'[h].kind = "Ok") =>
                /\ chan[h].st = "ok"
                /\ c_result'[h].val = p_incoming[c_sync[h]].body
                /\ c_result'[h].val = c_sync[h]
                /\ c_sync[h] \notin DOMAIN p_incoming'
        /\ c_result'[h].kind = "Ok" => c_result'[h].val = c_sync'[h]]_vars

\* Two sends were in flight at once, the response to the later request came
\* first, and both callers returned Ok.
C1_Witness ==
    \E h \in Handles : \E g \in Handles :
        /\ c_result[h].kind = "Ok"
        /\ c_result[g].kind = "Ok"
        /\ c_sync[h] < c_sync[g]
        /\ r_last = c_sync[h]

\* C7: the table holds exactly the syncs of the requests still in flight, the
\* step that cancels a send removes its sync from the table, and a response
\* that finds no entry leaves the table as it was.
C7_CancelRemovesEntry ==
    /\ [](DOMAIN awaiting_response = {c_sync[h] : h \in InFlight})
    /\ [][/\ \A h \in Handles :
                (h_st[h] = "awaiting" /\ c_result'[h] = Cancelled /\ c_result[h] # Cancelled)
                    => c_sync[h] \notin DOMAIN awaiting_response'
          /\ unwaited' # unwaited =>
                /\ awaiting_response' = awaiting_response
                /\ Cardinality(DOMAIN awaiting_response') = Cardinality(InFlight)]_vars

\* A send was cancelled, its response came later and found no entry, while
\* another request is still in flight and is the only entry of the table.
C7_Witness ==
    \E h \in Handles : \E g \in Handles :
        /\ c_result[h] = Cancelled
        /\ c_sync[h] \in unwaited
        /\ g \in InFlight
        /\ DOMAIN awaiting_response = {c_sync[g]}

\* C8: the step in which a worker's fatal error sets ClosedWithError(text)
\* also empties the table and puts Err(ClosedWithErr(text)) into the channel
\* of every request that was in flight; a caller that runs with that error in
\* its channel returns it.
C8_FatalErrorFailsAllWaiters ==
    [][/\ (state' # state /\ state'.tag = "ClosedWithError") =>
            /\ DOMAIN awaiting_response' = {}
            /\ \A h \in InFlight : chan'[h] = ErrChan(state'.text)
       /\ \A h \in Handles :
            (h_st[h] = "awaiting" /\ chan[h].st = "err" /\ h_st'[h] = "idle"
                    /\ c_result'[h] # Cancelled)
                => c_result'[h] = ClosedWithErr(chan[h].text)]_vars

\* Two requests were in flight when a worker failed, and both callers
\* returned ClosedWithErr with the text the state holds.
C8_Witness ==
    \E h \in Handles : \E g \in Handles :
        /\ h # g
        /\ state.tag = "ClosedWithError"
        /\ c_sync[h] > 0 /\ c_sync[g] > 0 /\ c_sync[h] # c_sync[g]
        /\ c_result[h] = ClosedWithErr(state.text)
        /\ c_result[g] = ClosedWithErr(state.text)

\* C9: whenever the state is not Alive the pending table is empty.
C9_ClosedMeansEmptyTable == is_closed(state) => DOMAIN awaiting_response = {}

\* The connection was closed while a request was in flight: its channel
\* holds the error and the table is empty.
C9_Witness ==
    /\ is_closed(state)
    /\ \E h \in Handles : h_st[h] = "awaiting" /\ chan[h].st = "err"

\* C10: once the state has been ClosedWithError(text), every send made from
\* then on returns Err(ClosedWithErr(text)) with that text in the step of the
\* call: it allocates no sync, appends no frame, registers no waiter and does
\* not suspend.
C10_SendAfterErrorFailsAtOnce ==
    [][(causes # {} /\ c_calls' = c_calls + 1) =>
        /\ \E h \in Handles :
            /\ h_st[h] = "idle"
            /\ \A text \in causes :
                 c_result' = [c_result EXCEPT ![h] = ClosedWithErr(text)]
        /\ UNCHANGED <<p_sync, p_outgoing, p_pending, awaiting_response, chan, h_st,
                       waker_changed>>]_vars

\* C11: a state that is ClosedManually or ClosedWithError is never followed
\* by Alive, whatever sends, worker errors and handle drops follow.
C11_NeverReopened == [][is_closed(state) => is_closed(state')]_vars

\* The connection was closed by a worker's error, then a handle was dropped
\* and a send was made on the closed connection.
C11_Witness ==
    /\ causes # {}
    /\ \E h \in Handles : h_st[h] = "dropped"
    /\ \E h \in Handles : c_result[h].kind = "ClosedWithErr" /\ h_st[h] = "idle"
    /\ is_closed(state)

\* C12: the state becomes ClosedManually only in the drop of the last live
\* handle, also after workers have exited, and no send ever reaches the
\* unreachable! branch of check_state.
C12_ClosedManuallyOnlyByLastHandle ==
    /\ [][(state' # state /\ state'.tag = "ClosedManually") =>
            \A h \in Handles : h_st'[h] \notin {"idle", "awaiting"}]_vars
    /\ []("All client handles are dropped at this point" \notin panicked)

\* C13: the step in which a send ends with Expired leaves the state Alive
\* and removes the entry of the expired request and no other; a later send
\* of the same handle whose response arrives with status ok returns Ok.
C13_ExpiredIsNotFatal ==
    [][\A h \in Handles :
        /\ (h_st[h] = "awaiting" /\ c_result'[h] = Expired) =>
                /\ state' = Alive
                /\ c_sync[h] \notin DOMAIN awaiting_response'
                /\ awaiting_response' = MapRemove(awaiting_response, c_sync[h])
        /\ (c_prev[h] = Expired /\ h_st[h] = "awaiting" /\ chan[h].st = "ok"
                /\ h_st'[h] = "idle" /\ c_result'[h] # Cancelled
                /\ c_sync[h] \in DOMAIN p_incoming
                /\ p_incoming[c_sync[h]].status = "ok") =>
                c_result'[h] = OkResult(c_sync[h])]_vars

\* A send of a handle expired, and the next send of the same handle returned
\* Ok on the still Alive connection.
C13_Witness ==
    \E h \in Handles :
        /\ c_prev[h] = Expired
        /\ c_result[h] = OkResult(c_sync[h])
        /\ is_alive(state)
        /\ c_calls >= 2

\* The error a caller gets for a response whose status is not zero.
ServerError == ProtocolErr("service responded with error")

\* C17: a response with a non-zero status fails the request it answers and
\* nothing else: the receiver's step that takes it leaves the state as it was,
\* touches no other entry of the table and signals no other waiter; the
\* caller's step returns the server's error and leaves state, table and the
\* other callers alone; the next send of that handle, answered with status
\* ok, returns Ok.
C17_ServerErrorFailsOnlyItsRequest ==
    [][/\ (answered' # answered /\ panicked' = {}
            /\ p_incoming'[r_last'].status = "error") =>
                /\ state' = state
                /\ \A s \in DOMAIN awaiting_response \ {r_last'} :
                        /\ s \in DOMAIN awaiting_response'
                        /\ awaiting_response'[s] = awaiting_response[s]
                /\ \A g \in Handles : chan'[g] # chan[g] =>
                        (c_sync[g] = r_last' /\ chan'[g] = OkChan)
       /\ \A h \in Handles :
            /\ (h_st[h] = "awaiting" /\ chan[h].st = "ok" /\ h_st'[h] = "idle"
                    /\ c_result'[h] # Cancelled
                    /\ c_sync[h] \in DOMAIN p_incoming
                    /\ p_incoming[c_sync[h]].status = "error") =>
                    /\ c_result'[h] = ServerError
                    /\ state' = state
                    /\ awaiting_response' = awaiting_response
                    /\ \A g \in Handles \ {h} :
                            chan'[g] = chan[g] /\ c_result'[g] = c_result[g]
            /\ (c_prev[h] = ServerError /\ h_st[h] = "awaiting" /\ chan[h].st = "ok"
                    /\ h_st'[h] = "idle" /\ c_result'[h] # Cancelled
                    /\ c_sync[h] \in DOMAIN p_incoming
                    /\ p_incoming[c_sync[h]].status = "ok") =>
                    c_result'[h] = OkResult(c_sync[h])]_vars

\* A send of a handle returned the server's error, and the next send of the
\* same handle returned Ok on the still Alive connection.
C17_Witness ==
    \E h \in Handles :
        /\ c_prev[h] = ServerError
        /\ c_result[h] = OkResult(c_sync[h])
        /\ is_alive(state)

\* C18: the receiver's step that takes a response whose sync has no entry in
\* the table changes neither the state nor the table nor any channel nor any
\* caller's result, does not panic, and on an Alive connection leaves the
\* receiver reading the next frame's prefix; no request issued afterwards
\* carries the sync of a discarded response, and every Ok a caller gets is
\* the response to its own sync.
C18_UnwaitedResponseDiscarded ==
    [][/\ (answered' # answered /\ r_last' \notin DOMAIN awaiting_response) =>
                /\ state' = state
                /\ awaiting_response' = awaiting_response
                /\ chan' = chan
                /\ c_result' = c_result
                /\ h_st' = h_st
                /\ panicked' = panicked
                /\ unwaited' = unwaited \cup {r_last'}
                /\ is_alive(state) => (receiver_pc' = "reading" /\ r_hint' = FirstU32)
       /\ \A h \in Handles :
            /\ c_sync'[h] # c_sync[h] =>
                    (c_sync'[h] \notin unwaited /\ c_sync'[h] \notin DOMAIN p_incoming)
            /\ (h_st[h] = "awaiting" /\ c_result'[h].kind = "Ok") =>
                    (c_result'[h].val = c_sync[h] /\ c_sync[h] \notin unwaited)]_vars

\* The response to a request whose send had expired or was cancelled arrived
\* and was discarded; the receiver read on, and the next send of that handle
\* got the response to its own request.
C18_Witness ==
    \E h \in Handles :
        /\ unwaited # {}
        /\ \A s \in unwaited : s < c_sync[h]
        /\ c_prev[h] \in {Cancelled, Expired}
        /\ c_result[h] = OkResult(c_sync[h])
        /\ r_last = c_sync[h]
        /\ is_alive(state)
        /\ receiver_pc = "reading"

\* No handle is live and the drop of one of them has begun.
LastHandleDropped ==
    /\ \A h \in Handles : h_st[h] \notin {"idle", "awaiting"}
    /\ \E h \in Handles : h_st[h] \in {"joining", "dropped"}

\* Both workers have exited and every drop has returned.
ShutDown ==
    /\ receiver_pc = "exited"
    /\ sender_pc = "exited"
    /\ \A h \in Handles : h_st[h] \in {"absent", "dropped"}

\* C19: the step in which the last live handle is dropped sets the state to
\* ClosedManually, signals the sender waker and leaves the socket closed with
\* the close token taken and the join handles drained; from then on both
\* workers exit and every drop returns, whatever the workers were waiting on
\* and whether or not one of them had exited before.
C19_LastDropTerminates ==
    /\ [][(~LastHandleDropped /\ LastHandleDropped') =>
            /\ state' = ClosedManually
            /\ waker_changed'
            /\ sock_closed'
            /\ ~close_token'
            /\ worker_handles' = {}]_vars
    /\ LastHandleDropped ~> ShutDown

\* Both handles were dropped after a request had been written, and the
\* shutdown is complete.
C19_Witness ==
    /\ \A h \in Handles : h_st[h] = "dropped"
    /\ ShutDown
    /\ wire # <<>>

\* C20: until the greeting has been received nothing is written to the socket
\* and no write has begun; with credentials the first frame on the socket is
\* the authentication request, whole, or torn by a failed write that wrote
\* nothing else, so every caller's frame comes after it.
C20_HandshakeBeforeRequests ==
    /\ p_phase = "greeting" => (wire = <<>> /\ sender_data = <<>> /\ sender_pc # "writing")
    /\ (p_creds /\ wire # <<>>) =>
            \/ wire[1].kind = "auth"
            \/ (Len(wire) = 1 /\ wire[1].kind = "torn" /\ p_phase = "auth")
    /\ (p_creds /\ sender_pc = "writing" /\ wire = <<>>) => sender_data[1].kind = "auth"

\* With credentials, a request was sent before the greeting arrived (its sync
\* is lower than that of the authentication request) and was written to the
\* socket after the authentication request.
C20_Witness ==
    /\ p_creds
    /\ Len(wire) >= 2
    /\ wire[1].kind = "auth"
    /\ wire[2].kind = "request"
    /\ wire[2].sync < wire[1].sync

\* The syncs the Protocol can have allocated: one per send and one for auth.
Syncs == 1..(MaxCalls + 1)

\* The frame with sync s waits in the outgoing buffer.
InOutgoing(s) == \E i \in 1..Len(p_outgoing) : p_outgoing[i].sync = s

\* The frame with sync s was written to the socket, whole.
OnWire(s) == \E i \in 1..Len(wire) : wire[i].sync = s /\ wire[i].kind \in {"request", "auth"}

\* C22: the sender never waits on the waker with frames in the outgoing
\* buffer and no signal pending; under fair scheduling every frame that is in
\* the outgoing buffer is written to the socket unless the connection closes.
C22_NoLostWakeup ==
    /\ []((sender_pc = "waiting" /\ p_outgoing # <<>>) => waker_changed)
    /\ \A s \in Syncs : InOutgoing(s) ~> (OnWire(s) \/ is_closed(state))

\* With credentials: the authentication request, produced by the receiver
\* while the sender waited, and a request sent before the greeting, released
\* by the receiver, were both written, and the connection is Alive.
C22_Witness ==
    /\ Len(wire) >= 2
    /\ wire[1].kind = "auth"
    /\ wire[2].kind = "request"
    /\ is_alive(state)
    /\ sender_pc = "waiting"
    /\ p_outgoing = <<>>

\* The frame with sync s is in the batch the sender is writing.
InWrite(s) == \E i \in 1..Len(sender_data) : sender_data[i].sync = s

\* The send that was given sync s was dropped before it had a result.
DroppedSend(s) ==
    \E h \in Handles :
        c_sync[h] = s /\ h_st[h] = "idle" /\ c_result[h] \in {Cancelled, Expired}

\* C23: the step in which a send is cancelled or expires changes neither the
\* buffers of the Protocol nor the batch being written nor the socket; the
\* requests on the socket are in the order of their syncs; under fair
\* scheduling the frame of a dropped send that is in the outgoing buffer or
\* in the batch being written gets onto the socket unless the connection
\* closes.
C23_CancelledFrameStillWritten ==
    /\ [][\A h \in Handles :
            (h_st[h] = "awaiting" /\ c_result'[h] \in {Cancelled, Expired}) =>
                /\ p_outgoing' = p_outgoing
                /\ p_pending' = p_pending
                /\ sender_data' = sender_data
                /\ wire' = wire]_vars
    /\ [](\A i, j \in 1..Len(wire) :
            (i < j /\ wire[i].kind = "request" /\ wire[j].kind = "request") =>
                wire[i].sync < wire[j].sync)
    /\ \A s \in Syncs :
            (DroppedSend(s) /\ (InOutgoing(s) \/ InWrite(s)))
                ~> (OnWire(s) \/ is_closed(state))

\* A send was dropped while its frame waited in the outgoing buffer, ahead
\* of the frame of another request.
C23_Witness ==
    \E s \in Syncs :
        /\ DroppedSend(s)
        /\ Len(p_outgoing) = 2
        /\ p_outgoing[1] = RequestFrame(s)
        /\ p_outgoing[2].sync > s
        /\ is_alive(state)

\* C24: the first read of a connection is the greeting of 128 bytes; after
\* it the reads alternate between a length prefix of 5 bytes and a frame of
\* exactly the length the prefix before it decoded to, which is positive; the
\* hint is FirstU32 after the greeting and after every frame, and Hint(n)
\* after a prefix that decoded to n.
C24_ReadsAlternate ==
    /\ r_reads = <<>> => r_hint = Hint(GreetingSize)
    /\ r_reads # <<>> => (r_reads[1].size = GreetingSize /\ r_reads[1].decoded = NoLength)
    /\ \A i \in 2..Len(r_reads) :
         IF i % 2 = 0
         THEN r_reads[i].size = PrefixSize /\ r_reads[i].decoded # NoLength
         ELSE /\ r_reads[i].decoded = NoLength
              /\ r_reads[i - 1].decoded > 0
              /\ r_reads[i].size = r_reads[i - 1].decoded
    /\ (receiver_pc = "reading" /\ Len(r_reads) % 2 = 1) => r_hint = FirstU32
    /\ (receiver_pc = "reading" /\ Len(r_reads) % 2 = 0 /\ r_reads # <<>>) =>
            r_hint = Hint(r_reads[Len(r_reads)].decoded)

\* The receiver read the greeting and then, twice, a prefix and its frame,
\* and waits for the next prefix.
C24_Witness ==
    /\ Len(r_reads) = 5
    /\ r_reads[4].decoded = r_reads[5].size
    /\ r_hint = FirstU32
    /\ receiver_pc = "reading"
    /\ is_alive(state)

\* C25: the step in which a length prefix decodes to 0 sets the state to
\* ClosedWithError with the text of the zero length error, empties the table,
\* puts that error into the channel of every waiter and ends the receiver
\* with the hint left at FirstU32; no read follows a prefix that decoded to 0,
\* and a waiter so signalled returns ClosedWithErr with that text.
C25_ZeroLengthIsFatal ==
    /\ [][(Len(r_reads') > Len(r_reads) /\ r_reads'[Len(r_reads')].decoded = 0) =>
            /\ state' = ClosedWithError(ZeroLengthError)
            /\ awaiting_response' = EmptyMap
            /\ \A h \in Handles :
                    (h_st[h] = "awaiting" /\ c_sync[h] \in DOMAIN awaiting_response) =>
                        chan'[h] = ErrChan(ZeroLengthError)
            /\ receiver_pc' = "exited"
            /\ r_hint' = FirstU32]_vars
    /\ [](\A i \in 1..Len(r_reads) : r_reads[i].decoded = 0 =>
            (i = Len(r_reads) /\ receiver_pc = "exited"))
    /\ [][\A h \in Handles :
            (h_st[h] = "awaiting" /\ chan[h] = ErrChan(ZeroLengthError)
                /\ h_st'[h] = "idle" /\ c_result'[h] # Cancelled) =>
                c_result'[h] = ClosedWithErr(ZeroLengthError)]_vars

\* A prefix decoded to 0 while a request was in flight, and its send
\* returned ClosedWithErr with the text of the zero length error.
C25_Witness ==
    /\ r_reads # <<>>
    /\ r_reads[Len(r_reads)].decoded = 0
    /\ receiver_pc = "exited"
    /\ \E h \in Handles : c_result[h] = ClosedWithErr(ZeroLengthError)

C27_WriteFailureClosesSocket ==
    [][(sender_pc = "writing" /\ sender_pc' = "exited" /\ wire' # wire \o sender_data) =>
        /\ state'.tag = "ClosedWithError"
        /\ sock_closed'
        /\ ~close_token']_vars

\* C28: once the state is ClosedWithError both workers exit, under fair
\* scheduling, whatever the callers and the peer do afterwards.
C28_OtherWorkerExits ==
    (state.tag = "ClosedWithError") ~> (receiver_pc = "exited" /\ sender_pc = "exited")

\* C29: a state that is ClosedWithError(text) never changes again.
C29_CloseCauseStable ==
    [][(state.tag = "ClosedWithError") => (state' = state)]_vars

\* C30: every entry of the table belongs to a send that is suspended on the
\* receiving half of its channel, still open; the receiver's send of Ok to a
\* waiter it found never fails.
C30_WaiterHalfIsLive ==
    /\ \A s \in DOMAIN awaiting_response : ReceiverHalfLive(awaiting_response[s], s)
    /\ "cannot be closed at this point" \notin panicked

\* The response to a dropped send arrived and found no waiter, and the
\* response to another send was handed to its waiter.
C30_Witness ==
    /\ \E h \in Handles : c_result[h] \in {Cancelled, Expired} /\ c_sync[h] \in unwaited
    /\ \E g \in Handles : chan[g] = OkChan /\ h_st[g] = "awaiting"
    /\ panicked = {}

\* ------------------------------------------------ claims on connect
\* C21: a connect whose TCP connection failed has returned Err(Error::Tcp)
\* with that failure, has started no worker fiber, and has left neither a
\* ClientInner nor its watch channel nor a close token behind.
C21_ConnectFailureLeavesNothing ==
    \A c \in Connectors :
        (cn_pc[c] = "done" /\ cn_outcome[c] \in TcpFailures) =>
            /\ cn_result[c] = TcpErr(cn_outcome[c])
            /\ cn_fibers[c] = {}
            /\ ~cn_inner[c]
            /\ ~cn_watch[c]
            /\ ~cn_token[c]

\* One connect failed with a refused connection while another one, with
\* credentials, succeeded and started its workers.
C21_Witness ==
    \E c, d \in Connectors :
        /\ cn_pc[c] = "done"
        /\ cn_outcome[c] = "connection refused"
        /\ cn_result[c].kind = "Tcp"
        /\ cn_result[d] = OkClient
        /\ cn_creds[d]
        /\ cn_fibers[d] = {"receiver", "sender"}

\* ------------------------------------------------ claims on Timeout
\* C14: a poll at which the inner future is ready returns Ok with the inner
\* output unchanged, also when the deadline has passed; Expired is never the
\* result of a poll at which the inner future is ready.
C14_InnerFirst ==
    [][(t_pc = "polling" /\ t_result' # t_result) =>
        /\ t_inner = "ready" => t_result' = [kind |-> "Ok", val |-> t_value]
        /\ t_result'.kind = "Expired" => t_inner # "ready"
        /\ t_result'.kind = "Ok" => t_inner = "ready"]_vars

\* A Timeout of zero duration was polled after its deadline with the inner
\* future ready, and returned Ok.
C14_Witness ==
    /\ t_result = [kind |-> "Ok", val |-> t_value]
    /\ t_duration = 0
    /\ t_now > t_deadline

\* C15: a Timeout whose inner future never becomes ready ends with Expired;
\* a Pending poll records the deadline in the task context; a poll returns
\* Expired exactly when the inner future is not ready and the instant is
\* strictly later than the deadline.
C15_EventuallyExpired ==
    /\ (t_pc = "polling" /\ t_inner = "never" /\ t_deadline < MaxInstant)
            ~> (t_result.kind = "Expired")
    /\ [][(t_pc = "polling" /\ t_result' # t_result) =>
            /\ t_result'.kind = "Expired" <=> (t_inner # "ready" /\ t_now > t_deadline)
            /\ t_result'.kind = "Pending" => t_sched' = t_deadline]_vars

\* A Timeout of zero duration was polled at its deadline (Pending, deadline
\* recorded), polled again later and returned Expired.
C15_Witness ==
    /\ t_result.kind = "Expired"
    /\ t_duration = 0
    /\ t_inner = "never"
    /\ t_sched = t_deadline

InitSendQueueV1 == InitSQ("V1") /\ InitConn /\ InitClient /\ ~p_creds /\ InitTimeoutIdle /\ InitConnect /\ InitNetBoxIdle

NextSendQueueV1 ==
    \/ \E c \in Callers : SendV1Start(c) /\ UNCHANGED <<connvars, clientvars, timeoutvars, connectvars, netboxvars, borrowed>>
    \/ \E c \in Callers : SendV1Acquired(c) /\ UNCHANGED <<connvars, clientvars, timeoutvars, connectvars, netboxvars, borrowed>>
    \/ \E c \in Callers : SendV1Resume(c) /\ UNCHANGED <<connvars, clientvars, timeoutvars, connectvars, netboxvars, borrowed>>
    \/ FlushCall /\ UNCHANGED <<connvars, clientvars, timeoutvars, connectvars, netboxvars, borrowed>>
    \/ FlushLoopV1 /\ UNCHANGED <<connvars, clientvars, timeoutvars, connectvars, netboxvars, borrowed>>
    \/ FlushAcquiredV1 /\ UNCHANGED <<connvars, clientvars, timeoutvars, connectvars, netboxvars, borrowed>>
    \/ FlushWriteV1 /\ UNCHANGED <<connvars, clientvars, timeoutvars, connectvars, netboxvars, borrowed>>
    \/ CloseV1Start /\ UNCHANGED <<connvars, clientvars, timeoutvars, connectvars, netboxvars, borrowed>>
    \/ CloseV1Acquired /\ UNCHANGED <<connvars, clientvars, timeoutvars, connectvars, netboxvars, borrowed>>

SpecSendQueueV1 == InitSendQueueV1 /\ [][NextSendQueueV1]_vars

\* SendQueue, revision V2 (src/tarantool/src/net_box/send_queue.rs)
InitSendQueueV2 == InitSQ("V2") /\ InitConn /\ InitClient /\ ~p_creds /\ InitTimeoutIdle /\ InitConnect /\ InitNetBoxIdle

NextSendQueueV2 ==
    \/ SendV2 /\ UNCHANGED <<connvars, clientvars, timeoutvars, connectvars, netboxvars, borrowed>>
    \/ FlushCall /\ UNCHANGED <<connvars, clientvars, timeoutvars, connectvars, netboxvars, borrowed>>
    \/ FlushLoopV2 /\ UNCHANGED <<connvars, clientvars, timeoutvars, connectvars, netboxvars, borrowed>>
    \/ FlushWriteV2 /\ UNCHANGED <<connvars, clientvars, timeoutvars, connectvars, netboxvars, borrowed>>
    \/ CloseV2 /\ UNCHANGED <<connvars, clientvars, timeoutvars, connectvars, netboxvars, borrowed>>

SpecSendQueueV2 == InitSendQueueV2 /\ [][NextSendQueueV2]_vars

\* the flusher calls flush_to_stream again and again, and every fiber that can
\* run is run in the end
SpecSendQueueV1Fair ==
    /\ SpecSendQueueV1
    /\ WF_vars(FlushCall /\ UNCHANGED <<connvars, clientvars, timeoutvars, connectvars, netboxvars, borrowed>>)
    /\ WF_vars(FlushLoopV1 /\ UNCHANGED <<connvars, clientvars, timeoutvars, connectvars, netboxvars, borrowed>>)
    /\ WF_vars(FlushAcquiredV1 /\ UNCHANGED <<connvars, clientvars, timeoutvars, connectvars, netboxvars, borrowed>>)
    /\ WF_vars(FlushWriteV1 /\ UNCHANGED <<connvars, clientvars, timeoutvars, connectvars, netboxvars, borrowed>>)
    /\ WF_vars(\E c \in Callers : SendV1Acquired(c) /\ UNCHANGED <<connvars, clientvars, timeoutvars, connectvars, netboxvars, borrowed>>)
    /\ WF_vars(\E c \in Callers : SendV1Resume(c) /\ UNCHANGED <<connvars, clientvars, timeoutvars, connectvars, netboxvars, borrowed>>)
    /\ WF_vars(CloseV1Acquired /\ UNCHANGED <<connvars, clientvars, timeoutvars, connectvars, netboxvars, borrowed>>)

SpecSendQueueV2Fair ==
    /\ SpecSendQueueV2
    /\ WF_vars(FlushCall /\ UNCHANGED <<connvars, clientvars, timeoutvars, connectvars, netboxvars, borrowed>>)
    /\ WF_vars(FlushLoopV2 /\ UNCHANGED <<connvars, clientvars, timeoutvars, connectvars, netboxvars, borrowed>>)
    /\ WF_vars(FlushWriteV2 /\ UNCHANGED <<connvars, clientvars, timeoutvars, connectvars, netboxvars, borrowed>>)

\* Conn
NextConn ==
    \/ ConnPing /\ UNCHANGED <<sqvars, clientvars, timeoutvars, connectvars, netboxvars, borrowed>>
    \/ ConnCall /\ UNCHANGED <<sqvars, clientvars, timeoutvars, connectvars, netboxvars, borrowed>>

InitConnOnly == InitSQ("V2") /\ InitConn /\ InitClient /\ ~p_creds /\ InitTimeoutIdle /\ InitConnect /\ InitNetBoxIdle

SpecConn == InitConnOnly /\ [][NextConn]_vars

\* The asynchronous client with its two worker fibers and its peer.
Init == InitSQ("V2") /\ InitConn /\ InitClient /\ InitTimeoutIdle /\ InitConnect /\ InitNetBoxIdle

Next ==
    \/ \E h \in Handles : Borrowing(ClientSend(h), TRUE, SendPoint(h)') /\ UNCHANGED <<sqvars, connvars, timeoutvars, connectvars, netboxvars>>
    \/ \E h \in Handles : Borrowing(ClientSendResume(h), TRUE, SendPoint(h)') /\ UNCHANGED <<sqvars, connvars, timeoutvars, connectvars, netboxvars>>
    \/ \E h \in Handles : Borrowing(ClientSendCancel(h), TRUE, SendPoint(h)') /\ UNCHANGED <<sqvars, connvars, timeoutvars, connectvars, netboxvars>>
    \/ \E h \in Handles : Borrowing(ClientSendExpired(h), TRUE, SendPoint(h)') /\ UNCHANGED <<sqvars, connvars, timeoutvars, connectvars, netboxvars>>
    \/ \E h \in Handles : \E n \in Handles : Borrowing(ClientClone(h, n), FALSE, "return") /\ UNCHANGED <<sqvars, connvars, timeoutvars, connectvars, netboxvars>>
    \/ \E h \in Handles : Borrowing(ClientDrop(h), drop_closes(StrongCount), DropPoint(h)') /\ UNCHANGED <<sqvars, connvars, timeoutvars, connectvars, netboxvars>>
    \/ \E h \in Handles : Borrowing(ClientDropJoined(h), FALSE, DropPoint(h)') /\ UNCHANGED <<sqvars, connvars, timeoutvars, connectvars, netboxvars>>
    \/ Borrowing(SenderWake, TRUE, SenderPoint') /\ UNCHANGED <<sqvars, connvars, timeoutvars, connectvars, netboxvars>>
    \/ Borrowing(SenderWritten, TRUE, SenderPoint') /\ UNCHANGED <<sqvars, connvars, timeoutvars, connectvars, netboxvars>>
    \/ Borrowing(ReceiverReadFailed, TRUE, ReceiverPoint') /\ UNCHANGED <<sqvars, connvars, timeoutvars, connectvars, netboxvars>>
    \/ Borrowing(ReceiverReadPrefix, TRUE, ReceiverPoint') /\ UNCHANGED <<sqvars, connvars, timeoutvars, connectvars, netboxvars>>
    \/ Borrowing(ReceiverReadMalformed, TRUE, ReceiverPoint') /\ UNCHANGED <<sqvars, connvars, timeoutvars, connectvars, netboxvars>>
    \/ Borrowing(ReceiverReadGreeting, TRUE, ReceiverPoint') /\ UNCHANGED <<sqvars, connvars, timeoutvars, connectvars, netboxvars>>
    \/ Borrowing(ReceiverReadAuth, TRUE, ReceiverPoint') /\ UNCHANGED <<sqvars, connvars, timeoutvars, connectvars, netboxvars>>
    \/ Borrowing(ReceiverReadResponse, TRUE, ReceiverPoint') /\ UNCHANGED <<sqvars, connvars, timeoutvars, connectvars, netboxvars>>

Spec == Init /\ [][Next]_vars

\* The scheduler runs every fiber that is ready: a woken sender, a finished
\* write, a read on the closed socket, a join of exited workers.
SpecFair ==
    /\ Spec
    /\ WF_vars(Borrowing(SenderWake, TRUE, SenderPoint') /\ UNCHANGED <<sqvars, connvars, timeoutvars, connectvars, netboxvars>>)
    /\ WF_vars(Borrowing(SenderWritten, TRUE, SenderPoint') /\ UNCHANGED <<sqvars, connvars, timeoutvars, connectvars, netboxvars>>)
    /\ WF_vars(sock_closed /\ Borrowing(ReceiverReadFailed, TRUE, ReceiverPoint') /\ UNCHANGED <<sqvars, connvars, timeoutvars, connectvars, netboxvars>>)
    /\ WF_vars(\E h \in Handles : Borrowing(ClientDropJoined(h), FALSE, DropPoint(h)') /\ UNCHANGED <<sqvars, connvars, timeoutvars, connectvars, netboxvars>>)

\* The Timeout combinator with its clock and its inner future.
InitTimeoutOnly == InitSQ("V2") /\ InitConn /\ InitClient /\ ~p_creds /\ InitTimeout /\ InitConnect /\ InitNetBoxIdle

NextTimeout ==
    \/ TimeoutNew /\ UNCHANGED <<sqvars, connvars, clientvars, connectvars, netboxvars, borrowed>>
    \/ Tick /\ UNCHANGED <<sqvars, connvars, clientvars, connectvars, netboxvars, borrowed>>
    \/ InnerReady /\ UNCHANGED <<sqvars, connvars, clientvars, connectvars, netboxvars, borrowed>>
    \/ TimeoutPoll /\ UNCHANGED <<sqvars, connvars, clientvars, connectvars, netboxvars, borrowed>>

SpecTimeout == InitTimeoutOnly /\ [][NextTimeout]_vars

\* The clock advances and the scheduler polls the task it has a reason to poll.
SpecTimeoutFair ==
    /\ SpecTimeout
    /\ WF_vars(Tick /\ UNCHANGED <<sqvars, connvars, clientvars, connectvars, netboxvars, borrowed>>)
    /\ WF_vars(TimeoutPoll /\ UNCHANGED <<sqvars, connvars, clientvars, connectvars, netboxvars, borrowed>>)

\* Fibers that call connect_with_config.
InitConnectOnly == InitSQ("V2") /\ InitConn /\ InitClient /\ ~p_creds /\ InitTimeoutIdle /\ InitConnect /\ InitNetBoxIdle

NextConnect ==
    \/ \E c \in Connectors : ConnectCall(c) /\ UNCHANGED <<sqvars, connvars, clientvars, timeoutvars, netboxvars, borrowed>>
    \/ \E c \in Connectors : ConnectResolved(c) /\ UNCHANGED <<sqvars, connvars, clientvars, timeoutvars, netboxvars, borrowed>>
    \/ \E c \in Connectors : ConnectDropped(c) /\ UNCHANGED <<sqvars, connvars, clientvars, timeoutvars, netboxvars, borrowed>>

SpecConnect == InitConnectOnly /\ [][NextConnect]_vars

\* write_to_buffer on payloads of any length
InitWriteOnly == InitSQ("V2") /\ InitConn /\ InitClient /\ ~p_creds /\ InitTimeoutIdle /\ InitConnect /\ InitWrite /\ InitRecv

NextWrite ==
    \/ WriteToBuffer /\ UNCHANGED <<sqvars, connvars, clientvars, timeoutvars, connectvars, recvvars, borrowed>>

SpecWrite == InitWriteOnly /\ [][NextWrite]_vars

\* RecvQueue (src/src/net_box/recv_queue.rs)
InitRecvQueue == InitSQ("V1") /\ InitConn /\ InitClient /\ ~p_creds /\ InitTimeoutIdle /\ InitConnect /\ InitNetBoxIdle

NextRecvQueue ==
    \/ \E c \in Callers : RecvCall(c) /\ UNCHANGED <<sqvars, connvars, clientvars, timeoutvars, connectvars, writevars, borrowed>>
    \/ \E c \in Callers : RecvInsertAcquired(c) /\ UNCHANGED <<sqvars, connvars, clientvars, timeoutvars, connectvars, writevars, borrowed>>
    \/ \E c \in Callers : RecvTimerFires(c) /\ UNCHANGED <<sqvars, connvars, clientvars, timeoutvars, connectvars, writevars, borrowed>>
    \/ \E c \in Callers : RecvTimedOut(c) /\ UNCHANGED <<sqvars, connvars, clientvars, timeoutvars, connectvars, writevars, borrowed>>
    \/ \E c \in Callers : RecvRemoveAcquired(c) /\ UNCHANGED <<sqvars, connvars, clientvars, timeoutvars, connectvars, writevars, borrowed>>
    \/ \E c \in Callers : RecvSignaled(c) /\ UNCHANGED <<sqvars, connvars, clientvars, timeoutvars, connectvars, writevars, borrowed>>
    \/ \E c \in Callers : RecvReadAcquired(c) /\ UNCHANGED <<sqvars, connvars, clientvars, timeoutvars, connectvars, writevars, borrowed>>
    \/ PullRead /\ UNCHANGED <<sqvars, connvars, clientvars, timeoutvars, connectvars, writevars, borrowed>>
    \/ PullReadFailed /\ UNCHANGED <<sqvars, connvars, clientvars, timeoutvars, connectvars, writevars, borrowed>>
    \/ PullAcquired1 /\ UNCHANGED <<sqvars, connvars, clientvars, timeoutvars, connectvars, writevars, borrowed>>
    \/ PullBody /\ UNCHANGED <<sqvars, connvars, clientvars, timeoutvars, connectvars, writevars, borrowed>>
    \/ PullAcquired2 /\ UNCHANGED <<sqvars, connvars, clientvars, timeoutvars, connectvars, writevars, borrowed>>

SpecRecvQueue == InitRecvQueue /\ [][NextRecvQueue]_vars

====
